---- MODULE Spec2Model ----
(***************************************************************************)
(* Model of the qcow2 image fuzzer: the cluster allocator, the layout      *)
(* builder (Image.__init__ and its stages), the field fuzzer (fuzz.py),    *)
(* the fuzzing pass Image.fuzz, Image.write and the file it leaves, and    *)
(* the test runner (runner.py): the seeding of the generator and the steps *)
(* of run_test.                                                            *)
(*                                                                         *)
(* Random draws of the program (random.randint, random.sample,             *)
(* random.shuffle, random.choice, ...) are modelled as nondeterministic    *)
(* choices.  Where the real population of a draw is too large to           *)
(* enumerate, the draw is taken from a named, bounded sample of it, so     *)
(* every behaviour of the model is a behaviour of the program.             *)
(***************************************************************************)
EXTENDS Integers, Sequences, FiniteSets, TLC

VARIABLES
    \* ---- allocator calls on their own (Image._get_*_clusters)
    used,            \* argument 'used'
    number,          \* argument 'number' / 'size'
    free_list,       \* list(set(range(1, append_id)) - used) as iterated
    avail_res,       \* value returned by _get_available_clusters
    adj_res,         \* value returned by _get_adjacent_clusters
    alloc_op         \* which call has been made: "none", "available",
                     \* "adjacent", "raised"

VARIABLES
    \* ---- one image: Image(backing_file_name, backing_file_fmt)
    pc,                      \* the method of Image that runs next
    call,                    \* entry point: "Image" or "create_image"
    bf_name_arg,             \* argument backing_file_name (None or a string)
    bf_fmt_arg,              \* argument backing_file_fmt (None or a string)
    cluster_bits,            \* local 'cluster_bits' of __init__
    cluster_size,            \* self.cluster_size
    image_size,              \* self.image_size
    header,                  \* self.header
    backing_file_name,       \* self.backing_file_name
    backing_file_format,     \* self.backing_file_format
    feature_name_table,      \* self.feature_name_table
    end_of_extension_area,   \* self.end_of_extension_area
    ext_offset,              \* local 'offset' of __init__
    data_clusters,           \* self.data_clusters
    l2_tables,               \* self.l2_tables
    l1_table,                \* self.l1_table
    l1_run                   \* create_l1_table's <<l1_first_cluster_id, l1_size>>

VARIABLES
    \* ---- one call of a fuzz function of fuzz.py on its own
    fz_module,       \* "qcow2" (qcow2/fuzz.py) or "template" (template/fuzz.py)
    fz_name,         \* the function called, named after its field
    fz_current,      \* argument 'current'
    fz_result,       \* the value returned
    fz_pc,           \* "call" before the call, "returned" after it
    fz_intervals,    \* argument 'intervals' of random_from_intervals
    fz_draw          \* its draw random.randint(0, total - 1)

VARIABLES
    \* ---- Image.fuzz, called by create_image on the image built
    fields_to_fuzz,  \* argument 'fields_to_fuzz'
    fuzz_status,     \* "none", "returned", or the exception raised
    fuzz_log         \* the visits of fields in which a coin was won or a
                     \* field was given to its fuzz function, in order

VARIABLES
    \* ---- Image.write(filename)
    image_file       \* the file written: its length, whether the padding
                     \* byte was written, and its first HeaderArea bytes

VARIABLES
    \* ---- runner.py: two runs of one test, one after the other
    t_run,           \* the run in progress: 1 or 2
    t_pc,            \* the step of the run that comes next
    t_seed_arg,      \* argument 'seed' of TestEnv (None or a seed)
    t_config,        \* argument 'fuzz_config' of execute
    t_gen,           \* the state of the generator of module random
    t_seed,          \* self.seed
    t_backing,       \* the backing file name and format given to create_image
    t_image,         \* the image create_image built: the values it drew
    t_file,          \* the bytes of the file create_image wrote
    t_drawn,         \* how many draws of the test the generator has served,
                     \* and how many of them before random.seed
    t_first          \* what the first run left: seed, arguments, image, file

VARIABLES
    \* ---- runner.py: run_test, one test from TestEnv() to finish()
    r_pc,            \* the step of run_test that comes next
    r_cleanup,       \* argument 'cleanup' of TestEnv
    r_left,          \* how many commands execute has still to run
    r_retcodes,      \* the return codes of the commands run, in order
    r_failed,        \* self.failed
    r_raised,        \* the exception execute has raised, or "none"
    r_dir,           \* the test directory: "absent", "present", "removed"
    r_calls          \* the methods of the test called so far, in order

allocvars == <<used, number, free_list, avail_res, adj_res, alloc_op>>

fuzzvars == <<fields_to_fuzz, fuzz_status, fuzz_log>>

selvars == <<fz_module, fz_name, fz_current, fz_result, fz_pc,
             fz_intervals, fz_draw>>

imgvars == <<pc, call, bf_name_arg, bf_fmt_arg, cluster_bits, cluster_size,
             image_size,
             header, backing_file_name, backing_file_format,
             feature_name_table, end_of_extension_area, ext_offset,
             data_clusters, l2_tables, l1_table, l1_run, fuzzvars,
             image_file>>

runvars == <<r_pc, r_cleanup, r_left, r_retcodes, r_failed, r_raised, r_dir,
             r_calls>>

testvars == <<t_run, t_pc, t_seed_arg, t_config, t_gen, t_seed, t_backing,
              t_image, t_file, t_drawn, t_first, runvars>>

vars == <<allocvars, imgvars, selvars, testvars>>

(***************************************************************************)
(* Python built-ins                                                        *)
(***************************************************************************)
Max(S) == CHOOSE x \in S : \A y \in S : y <= x
Min(S) == CHOOSE x \in S : \A y \in S : x <= y

\* range(a, b) as a set
PyRange(a, b) == a .. (b - 1)

\* value standing for Python's None where an integer is expected
NoneVal == 0 - 1

RECURSIVE SortedSeq(_)
\* sorted(S)
SortedSeq(S) ==
    IF S = {} THEN <<>>
    ELSE LET m == Min(S) IN <<m>> \o SortedSeq(S \ {m})

\* the sequence s rotated left by k
Rotate(s, k) ==
    [i \in 1 .. Len(s) |-> s[((i + k - 1) % Len(s)) + 1]]

(***************************************************************************)
(* Bounds on the enumeration of random draws                               *)
(***************************************************************************)
\* sequences up to this length are permuted in every way; longer ones are
\* only rotated
MaxPerm == 4

\* every order of the sequence s (s up to MaxPerm long), else its rotations
Orders(s) ==
    IF Len(s) <= MaxPerm
    THEN {[i \in 1 .. Len(s) |-> s[p[i]]] : p \in Permutations(1 .. Len(s))}
    ELSE {Rotate(s, k) : k \in 0 .. (Len(s) - 1)}

\* random.sample(population, k) of a set, as the set of the k members drawn
random_sample(pop, k) ==
    {S \in SUBSET pop : Cardinality(S) = k}

\* random.shuffle(lst): the orders lst can be left in
random_shuffle(lst) == Orders(lst)

\* random.sample(range(a, b), k), as the list returned; ValueError (no
\* value) when k exceeds the population.  Of the lists it can return two
\* are drawn: the k lowest values ascending and the k highest descending
random_sample_range(a, b, k) ==
    IF k > b - a THEN {}
    ELSE {[i \in 1 .. k |-> a + i - 1], [i \in 1 .. k |-> b - i]}

\* list(a_set), iter(a_set): a set of small integers is iterated in the order
\* of its hash slots (value modulo table size), which is the ascending
\* order or, when the table wraps, a rotation of it
list_of_set(S) ==
    IF S = {} THEN {<<>>}
    ELSE {Rotate(SortedSeq(S), k) : k \in 0 .. (Cardinality(S) - 1)}

(***************************************************************************)
(* Cluster allocator: layout.py, Image._get_available_clusters and         *)
(* Image._get_adjacent_clusters                                            *)
(***************************************************************************)

\* what stands for the ValueError that max() raises
ValueError == 0 - 2

\* mutant: max() of an empty set is taken as 0
py_max_or_zero(S) == IF S = {} THEN 0 ELSE Max(S)

\* max(S): ValueError for an empty set
py_max(S) == IF S = {} THEN ValueError ELSE Max(S)

\* mutant: the appended range forgets the free indices already taken
get_available_clusters_overlong(u, n) ==
    LET append_id == Max(u) + 1
        free == PyRange(1, append_id) \ u
    IN IF Cardinality(free) >= n
       THEN random_sample(free, n)
       ELSE {free \cup PyRange(append_id, append_id + n)}

\* mutant: the free indices are not cleared of the used ones
get_available_clusters_ignoring_used(u, n) ==
    LET append_id == Max(u) + 1
        free == PyRange(1, append_id)
    IN IF Cardinality(free) >= n
       THEN random_sample(free, n)
       ELSE {free \cup PyRange(append_id, append_id + n - Cardinality(free))}

\* the possible return values of _get_available_clusters(used, number)
get_available_clusters(u, n) ==
    LET append_id == py_max(u) + 1
        free == PyRange(1, append_id) \ u
    IN IF Cardinality(free) >= n
       THEN random_sample(free, n)
       ELSE {free \cup PyRange(append_id, append_id + n - Cardinality(free))}

RECURSIVE pairs_loop(_, _, _, _)
\* the for loop of get_cluster_id from index i on (1-based), with the
\* current pair and the pairs collected so far; a pair is
\* <<last index of a run, length of the run>>
pairs_loop(lst, i, pair, pairs) ==
    IF i > Len(lst) THEN Append(pairs, pair)
    ELSE IF lst[i] = lst[i - 1] + 1
         THEN pairs_loop(lst, i + 1, <<lst[i], pair[2] + 1>>, pairs)
         ELSE pairs_loop(lst, i + 1, <<lst[i], 1>>, Append(pairs, pair))


RECURSIVE first_fit_off_by_one(_, _)
\* mutant: the start of the run is taken one too low
first_fit_off_by_one(pairs, length) ==
    IF pairs = <<>> THEN NoneVal
    ELSE IF Head(pairs)[2] >= length THEN Head(pairs)[1] - length
         ELSE first_fit_off_by_one(Tail(pairs), length)

RECURSIVE first_fit(_, _)
\* "for x, s in pairs: if s >= length: return x - length + 1", else None
first_fit(pairs, length) ==
    IF pairs = <<>> THEN NoneVal
    ELSE IF Head(pairs)[2] >= length THEN Head(pairs)[1] - length + 1
         ELSE first_fit(Tail(pairs), length)

\* the possible return values of the inner get_cluster_id(lst, length)
get_cluster_id(lst, length) ==
    IF Len(lst) # 0
    THEN {first_fit(sh, length) :
              sh \in random_shuffle(pairs_loop(lst, 2, <<lst[1], 1>>, <<>>))}
    ELSE {NoneVal}

\* the free indices _get_adjacent_clusters turns into a list
adjacent_free(u) == PyRange(1, py_max(u) + 1) \ u

\* the possible return values of _get_adjacent_clusters(used, size) when the
\* free list is iterated as lst
get_adjacent_clusters(u, size, lst) ==
    LET append_id == py_max(u) + 1
    IN {IF idx = NoneVal THEN append_id ELSE idx :
            idx \in get_cluster_id(lst, size)}

(***************************************************************************)
(* The allocator calls as a state machine of their own: any 'used' and     *)
(* any 'number' as input, one call as the step.                            *)
(***************************************************************************)
\* largest cluster index in an input 'used'
MaxIndex == 5
\* largest 'number' / 'size' asked for
MaxNumber == 3

\* no file has been written
NoFile == [size |-> 0, padded |-> FALSE, head |-> <<>>]

\* the argument fields_to_fuzz: None, or a list of items
NoFields == [is_none |-> TRUE, items |-> <<>>]
Items(list) == [is_none |-> FALSE, items |-> list]

\* no allocator call of its own is being made
AllocIdle ==
    /\ used = {}
    /\ number = 0
    /\ free_list = <<>>
    /\ avail_res = {}
    /\ adj_res = NoneVal
    /\ alloc_op = "idle"

\* no image is being built
ImgIdle ==
    /\ pc = "idle"
    /\ call = "none"
    /\ bf_name_arg = NoneVal
    /\ bf_fmt_arg = NoneVal
    /\ cluster_bits = 0
    /\ cluster_size = 0
    /\ image_size = 0
    /\ header = <<>>
    /\ backing_file_name = <<>>
    /\ backing_file_format = <<>>
    /\ feature_name_table = <<>>
    /\ end_of_extension_area = <<>>
    /\ ext_offset = 0
    /\ data_clusters = {}
    /\ l2_tables = <<>>
    /\ l1_table = <<>>
    /\ l1_run = <<0, 0>>
    /\ fields_to_fuzz = NoFields
    /\ fuzz_status = "none"
    /\ fuzz_log = <<>>
    /\ image_file = NoFile

\* no fuzz function is being called on its own
SelIdle ==
    /\ fz_module = "none"
    /\ fz_name = "none"
    /\ fz_current = 0
    /\ fz_result = 0
    /\ fz_pc = "idle"
    /\ fz_intervals = <<>>
    /\ fz_draw = 0

\* no file of a run, and the record kept of a run
NoRun == [seed |-> NoneVal, backing |-> <<NoneVal, NoneVal>>,
          config |-> NoneVal, image |-> <<>>, file |-> <<>>]

\* run_test is not being followed
RunIdle ==
    /\ r_pc = "idle"
    /\ r_cleanup = TRUE
    /\ r_left = 0
    /\ r_retcodes = <<>>
    /\ r_failed = FALSE
    /\ r_raised = "none"
    /\ r_dir = "absent"
    /\ r_calls = <<>>

\* no test is being run
TestIdle ==
    /\ RunIdle
    /\ t_run = 0
    /\ t_pc = "idle"
    /\ t_seed_arg = NoneVal
    /\ t_config = NoneVal
    /\ t_gen = 0
    /\ t_seed = NoneVal
    /\ t_backing = <<NoneVal, NoneVal>>
    /\ t_image = <<>>
    /\ t_file = <<>>
    /\ t_drawn = <<0, 0>>
    /\ t_first = NoRun

InitAlloc ==
    /\ used \in SUBSET (0 .. MaxIndex)
    /\ number \in 0 .. MaxNumber
    /\ free_list = <<>>
    /\ avail_res = {}
    /\ adj_res = NoneVal
    /\ alloc_op = "none"
    /\ ImgIdle
    /\ SelIdle
    /\ TestIdle

\* max() of an empty set raises ValueError in both operations
AllocRaise ==
    /\ alloc_op = "none"
    /\ py_max(used) = ValueError
    /\ alloc_op' = "raised"
    /\ UNCHANGED <<used, number, free_list, avail_res, adj_res>>
    /\ UNCHANGED imgvars
    /\ UNCHANGED selvars
    /\ UNCHANGED testvars

GetAvailable ==
    /\ alloc_op = "none"
    /\ py_max(used) # ValueError
    /\ \E r \in get_available_clusters(used, number) :
           avail_res' = r
    /\ alloc_op' = "available"
    /\ UNCHANGED <<used, number, free_list, adj_res>>
    /\ UNCHANGED imgvars
    /\ UNCHANGED selvars
    /\ UNCHANGED testvars

GetAdjacent ==
    /\ alloc_op = "none"
    /\ py_max(used) # ValueError
    /\ \E lst \in list_of_set(adjacent_free(used)) :
           /\ free_list' = lst
           /\ \E r \in get_adjacent_clusters(used, number, lst) :
                  adj_res' = r
    /\ alloc_op' = "adjacent"
    /\ UNCHANGED <<used, number, avail_res>>
    /\ UNCHANGED imgvars
    /\ UNCHANGED selvars
    /\ UNCHANGED testvars

NextAlloc ==
    \/ AllocRaise
    \/ GetAvailable
    \/ GetAdjacent

SpecAlloc == InitAlloc /\ [][NextAlloc]_vars

(***************************************************************************)
(* Field model: layout.py, Field and FieldsList                            *)
(***************************************************************************)
\* Standard sizes
UINT32_S == 4
UINT64_S == 8

\* struct formats: '>I', '>Q', 'B' and '>' + str(n) + 's'
FmtI == [code |-> "I", size |-> UINT32_S]
FmtQ == [code |-> "Q", size |-> UINT64_S]
FmtB == [code |-> "B", size |-> 1]
FmtS(n) == [code |-> "s", size |-> n]

\* struct.calcsize(fmt)
calcsize(fmt) == fmt.size

\* a Python string, modelled by what it names and its length
PyStr(text, n) == [text |-> text, len |-> n]

\* Field(fmt, offset, val, name)
Field(fmt, offset, val, name) ==
    [fmt |-> fmt, offset |-> offset, value |-> val, name |-> name]

\* FieldsList.__getitem__(name)
getitem(fl, name) == SelectSeq(fl, LAMBDA x : x.name = name)

\* fl[name][0].value = v
set_value(fl, name, v) ==
    LET first == Min({i \in DOMAIN fl : fl[i].name = name})
    IN [fl EXCEPT ![first].value = v]

\* a 32-bit constant written in hexadecimal, as its two 16-bit halves
Hex32(hi16, lo16) == [hi16 |-> hi16, lo16 |-> lo16]

\* (1 << 63) + x, for x < 2^63: bit 63 and the 63 bits below it
Bit63Plus(x) == [bit63 |-> 1, rest |-> x]

\* ceil(a / float(b)) for a >= 0, b > 0
CeilDiv(a, b) == (a + b - 1) \div b

\* (n + 7) & ~7
RoundUp8(n) == ((n + 7) \div 8) * 8

(***************************************************************************)
(* Layout builder: layout.py, class Image                                  *)
(***************************************************************************)
MAX_IMAGE_SIZE == 10 * 1048576

\* the fixed names of the header fields, in the order of meta_header
HeaderNames ==
    <<"magic", "version", "backing_file_offset", "backing_file_size",
      "cluster_bits", "size", "crypt_method", "l1_size", "l1_table_offset",
      "refcount_table_offset", "refcount_table_clusters", "nb_snapshots",
      "snapshots_offset", "incompatible_features", "compatible_features",
      "autoclear_features", "refcount_order", "header_length">>

\* mutant: meta_header with another refcount_order
meta_header_refcount_order(c_bits, img_size, version) ==
    << Field(FmtS(4), 0, PyStr("QFI\\xfb", 4), "magic"),
       Field(FmtI, 4, version, "version"),
       Field(FmtQ, 8, 0, "backing_file_offset"),
       Field(FmtI, 16, 0, "backing_file_size"),
       Field(FmtI, 20, c_bits, "cluster_bits"),
       Field(FmtQ, 24, img_size, "size"),
       Field(FmtI, 32, 0, "crypt_method"),
       Field(FmtI, 36, 0, "l1_size"),
       Field(FmtQ, 40, 0, "l1_table_offset"),
       Field(FmtQ, 48, 0, "refcount_table_offset"),
       Field(FmtI, 56, 0, "refcount_table_clusters"),
       Field(FmtI, 60, 0, "nb_snapshots"),
       Field(FmtQ, 64, 0, "snapshots_offset"),
       Field(FmtQ, 72, 0, "incompatible_features"),
       Field(FmtQ, 80, 0, "compatible_features"),
       Field(FmtQ, 88, 0, "autoclear_features"),
       Field(FmtI, 96, 3, "refcount_order"),
       Field(FmtI, 100, 0, "header_length") >>

\* meta_header of create_header; version is the draw random.randint(2, 3)
meta_header(c_bits, img_size, version) ==
    << Field(FmtS(4), 0, PyStr("QFI\\xfb", 4), "magic"),
       Field(FmtI, 4, version, "version"),
       Field(FmtQ, 8, 0, "backing_file_offset"),
       Field(FmtI, 16, 0, "backing_file_size"),
       Field(FmtI, 20, c_bits, "cluster_bits"),
       Field(FmtQ, 24, img_size, "size"),
       Field(FmtI, 32, 0, "crypt_method"),
       Field(FmtI, 36, 0, "l1_size"),
       Field(FmtQ, 40, 0, "l1_table_offset"),
       Field(FmtQ, 48, 0, "refcount_table_offset"),
       Field(FmtI, 56, 0, "refcount_table_clusters"),
       Field(FmtI, 60, 0, "nb_snapshots"),
       Field(FmtQ, 64, 0, "snapshots_offset"),
       Field(FmtQ, 72, 0, "incompatible_features"),
       Field(FmtQ, 80, 0, "compatible_features"),
       Field(FmtQ, 88, 0, "autoclear_features"),
       Field(FmtI, 96, 4, "refcount_order"),
       Field(FmtI, 100, 0, "header_length") >>

\* create_header: the header it leaves in self.header.  version, inc and
\* comp are the draws randint(2, 3), getrandbits(2) and getrandbits(1);
\* bf_name is None or the length of the backing file name
create_header(c_bits, c_size, img_size, bf_name, version, inc, comp) ==
    LET h0 == meta_header(c_bits, img_size, version)
        h1 == IF getitem(h0, "version")[1].value = 2
              THEN set_value(h0, "header_length", 72)
              ELSE set_value(
                       set_value(
                           set_value(h0, "incompatible_features", inc),
                           "compatible_features", comp),
                       "header_length", 104)
        max_header_len == calcsize(getitem(h1, "header_length")[1].fmt) +
                          getitem(h1, "header_length")[1].offset
        end_of_extension_area_len == 2 * UINT32_S
        free_space == c_size - max_header_len - end_of_extension_area_len
    IN IF bf_name # NoneVal /\ free_space >= bf_name
       THEN set_value(
                set_value(h1, "backing_file_size", bf_name),
                "backing_file_offset", c_size - bf_name)
       ELSE h1

\* set_backing_file_name placing the name after the header
set_backing_file_name_after_header(hdr, bf_name) ==
    IF bf_name # NoneVal /\
       ~ (getitem(hdr, "backing_file_offset")[1].value = 0)
    THEN << Field(FmtS(bf_name), 104,
                  PyStr("backing_file_name", bf_name), "bf_name") >>
    ELSE <<>>

\* set_backing_file_name: the list it leaves in self.backing_file_name
set_backing_file_name(hdr, bf_name) ==
    IF bf_name # NoneVal /\
       ~ (getitem(hdr, "backing_file_offset")[1].value = 0)
    THEN << Field(FmtS(bf_name),
                  getitem(hdr, "backing_file_offset")[1].value,
                  PyStr("backing_file_name", bf_name), "bf_name") >>
    ELSE <<>>

\* (backing_file_offset or (cluster_size - 1)) - end_of_extension_area_len
high_border(hdr, c_size) ==
    (IF getitem(hdr, "backing_file_offset")[1].value # 0
     THEN getitem(hdr, "backing_file_offset")[1].value
     ELSE c_size - 1) - 2 * UINT32_S

\* set_backing_file_format: self.backing_file_format and the offset returned
set_backing_file_format(hdr, c_size, bf_fmt) ==
    LET offset == calcsize(getitem(hdr, "header_length")[1].fmt) +
                  getitem(hdr, "header_length")[1].offset
        free_space == high_border(hdr, c_size) - offset
        ext_size == 2 * UINT32_S + RoundUp8(bf_fmt)
        ext_data_len == bf_fmt
        ext_padding_len == 7 - ((ext_data_len - 1) % 8)
        fl == << Field(FmtI, offset, Hex32("E279", "2ACA"), "ext_magic"),
                 Field(FmtI, offset + UINT32_S, ext_data_len, "ext_length"),
                 Field(FmtS(ext_data_len), offset + UINT32_S * 2,
                       PyStr("backing_file_fmt", bf_fmt), "bf_format") >>
    IN IF bf_fmt # NoneVal /\ free_space >= ext_size
       THEN [fields |-> fl,
             offset |-> getitem(fl, "bf_format")[1].offset +
                        calcsize(getitem(fl, "bf_format")[1].fmt) +
                        ext_padding_len]
       ELSE [fields |-> <<>>, offset |-> offset]

\* min(10, (free_space - ext_header_len) / fnt_entry_size) of
\* create_feature_name_table; '/' is Python 2 integer division, which floors
num_fnt_entries(hdr, c_size, offset) ==
    LET free_space == high_border(hdr, c_size) - offset
        ext_header_len == 2 * UINT32_S
        fnt_entry_size == 6 * UINT64_S
        quot == (free_space - ext_header_len) \div fnt_entry_size
    IN IF 10 <= quot THEN 10 ELSE quot

\* the number of times the while loop of create_feature_name_table runs
fnt_loops(num) == IF num > 0 THEN num ELSE 0

RECURSIVE feature_tables(_, _, _)
\* the list feature_tables after the entries i .. Len(ids) are added from
\* inner_offset on; ids[i] is the i-th <<feat_type, feat_bit>> kept
feature_tables(ids, i, inner_offset) ==
    IF i > Len(ids) THEN <<>>
    ELSE << Field(FmtB, inner_offset, ids[i][1], "feature_type"),
            Field(FmtB, inner_offset + 1, ids[i][2], "feature_bit_number"),
            Field(FmtS(17), inner_offset + 2,
                  PyStr("some cool feature", 17), "feature_name") >>
         \o feature_tables(ids, i + 1, inner_offset + 6 * UINT64_S)

\* create_feature_name_table: self.feature_name_table and the offset
\* returned; ids are the feature ids drawn, fnt_loops(num) of them
create_feature_name_table(hdr, c_size, offset, ids) ==
    LET ext_header_len == 2 * UINT32_S
        fnt_entry_size == 6 * UINT64_S
        num == num_fnt_entries(hdr, c_size, offset)
        tables == feature_tables(ids, 1, offset + ext_header_len)
        inner_offset == offset + ext_header_len + Len(ids) * fnt_entry_size
    IN IF ~ (num = 0)
       THEN [fields |->
                 << Field(FmtI, offset, Hex32("6803", "f857"), "ext_magic"),
                    Field(FmtI, offset + UINT32_S, (Len(tables) \div 3) * 48,
                          "ext_length") >> \o tables,
             offset |-> inner_offset]
       ELSE [fields |-> <<>>, offset |-> offset]

\* set_end_of_extension_area: self.end_of_extension_area
set_end_of_extension_area(offset) ==
    << Field(FmtI, offset, 0, "ext_magic"),
       Field(FmtI, offset + UINT32_S, 0, "ext_length") >>

\* l2_size of create_l2_tables: the number of entries in an L2 table
l2_size_of(c_size) == c_size \div UINT64_S

\* max_l2_size: ceil(UINT64_S * image_size / float(cluster_size**2))
max_l2_size_of(img_size, c_size) ==
    CeilDiv(UINT64_S * img_size, c_size * c_size)

\* low_lim left at one entry
low_lim_one(n, img_size, c_size) == 1

\* low_lim: int(ceil(len(temp) / max_l2_size))
low_lim_of(n, img_size, c_size) ==
    CeilDiv(n, max_l2_size_of(img_size, c_size))

RECURSIVE binding_sizes(_, _, _)
\* the while loop binding data clusters to L2 tables: the lists of
\* num_of_entries it can go through for n clusters left, each the draw
\* random.randint(low_lim, l2_size) cut down to the clusters left
binding_sizes(n, low_lim, l2_size) ==
    IF n = 0 THEN {<<>>}
    ELSE UNION {{<<k>> \o rest : rest \in binding_sizes(n - k, low_lim, l2_size)} :
                   k \in {IF d > n THEN n ELSE d : d \in low_lim .. l2_size}}

RECURSIVE entry_ids_draws(_, _, _)
\* for the tables t .. Len(sizes): the draws
\* random.sample(range(l2_size), num_of_entries), one list per table
entry_ids_draws(sizes, t, l2_size) ==
    IF t > Len(sizes) THEN {<<>>}
    ELSE {<<ids>> \o rest :
              ids \in random_sample_range(0, l2_size, sizes[t]),
              rest \in entry_ids_draws(sizes, t + 1, l2_size)}

RECURSIVE SumUpTo(_, _)
\* sizes[1] + ... + sizes[t]
SumUpTo(sizes, t) == IF t = 0 THEN 0 ELSE sizes[t] + SumUpTo(sizes, t - 1)

\* mutant: the descriptor is computed from the entry index, not from the
\* data cluster
create_entry_wrong_target(cluster, ids, entries, bits, c_size, version) ==
    [j \in 1 .. Len(entries) |->
        LET offset == cluster * c_size
            entry_offset == offset + ids[j] * UINT64_S
            cluster_descriptor ==
                ids[j] * c_size + (IF ~ (version = 2) THEN bits[j] ELSE 0)
        IN Field(FmtQ, entry_offset, Bit63Plus(cluster_descriptor),
                 "l2_entry")]

\* create_entry for the table in cluster 'cluster': fields of its entries;
\* ids and entries are zipped, bits are the draws random.randint(0, 1)
create_entry(cluster, ids, entries, bits, c_size, version) ==
    [j \in 1 .. Len(entries) |->
        LET offset == cluster * c_size
            entry_offset == offset + ids[j] * UINT64_S
            cluster_descriptor ==
                entries[j] * c_size + (IF ~ (version = 2) THEN bits[j] ELSE 0)
        IN Field(FmtQ, entry_offset, Bit63Plus(cluster_descriptor),
                 "l2_entry")]

RECURSIVE reduce_create_entry(_, _, _, _, _, _, _, _)
\* reduce(create_entry, zip(l2_clusters, l2_content), []) from table t on
reduce_create_entry(t, clusters, temp, sizes, ids, bits, c_size, version) ==
    IF t > Len(sizes) \/ t > Len(clusters) THEN <<>>
    ELSE LET from == SumUpTo(sizes, t - 1)
             entries == SubSeq(temp, from + 1, from + sizes[t])
             tbits == SubSeq(bits, from + 1, from + sizes[t])
         IN create_entry(clusters[t], ids[t], entries, tbits, c_size, version)
            \o reduce_create_entry(t + 1, clusters, temp, sizes, ids, bits,
                                   c_size, version)

\* create_l2_tables for a non-empty set of data clusters: self.l2_tables.
\* temp is the shuffled list of data clusters, sizes the num_of_entries of
\* each table, ids the entry_ids of each table, clusters the set l2_clusters
\* in the order zip iterates it, bits the low bit drawn for each entry
create_l2_tables(c_size, version, temp, sizes, ids, clusters, bits) ==
    reduce_create_entry(1, clusters, temp, sizes, ids, bits, c_size, version)

\* l2_cluster_ids of create_l1_table
l2_cluster_ids_of(l2, c_size) ==
    {l2[i].offset \div c_size : i \in DOMAIN l2}

\* l1_size: int(ceil(UINT64_S * (max(l1_entries_ids) + 1) / float(cluster_size)))
l1_size_of(l1_entries_ids, c_size) ==
    CeilDiv(UINT64_S * (Max({l1_entries_ids[i] : i \in DOMAIN l1_entries_ids}) + 1),
            c_size)

\* n-th pair of zip(a, b)
ZipLen(a, b) == IF Len(a) < Len(b) THEN Len(a) ELSE Len(b)

\* mutant: the entry holds the cluster index of the L2 table, not its offset
create_l1_entries_index(l1_first_cluster_id, l1_entries_ids, l2_ids, c_size) ==
    LET l1_offset == l1_first_cluster_id * c_size
    IN [k \in 1 .. ZipLen(l1_entries_ids, l2_ids) |->
           Field(FmtQ, l1_offset + UINT64_S * l1_entries_ids[k],
                 Bit63Plus(l2_ids[k]), "l1_entry")]

\* create_l1_table with data clusters: the list l1.  l1_entries_ids is the
\* sample drawn, l2_ids the set l2_cluster_ids in the order zip iterates it
create_l1_entries(l1_first_cluster_id, l1_entries_ids, l2_ids, c_size) ==
    LET l1_offset == l1_first_cluster_id * c_size
    IN [k \in 1 .. ZipLen(l1_entries_ids, l2_ids) |->
           Field(FmtQ, l1_offset + UINT64_S * l1_entries_ids[k],
                 Bit63Plus(l2_ids[k] * c_size), "l1_entry")]

\* mutant: the placeholder entry may fall into the header's cluster
create_l1_placeholder_header_cluster(cluster, c_size) ==
    << Field(FmtQ, (cluster - 1) * c_size, 0, "l1_entry") >>

\* create_l1_table without data clusters: the list l1; cluster is the draw
\* random.randint(1, 3)
create_l1_placeholder(cluster, c_size) ==
    << Field(FmtQ, cluster * c_size, 0, "l1_entry") >>

(***************************************************************************)
(* Image(backing_file_name, backing_file_fmt) as a state machine: one      *)
(* action per method called by Image.__init__, in its order.               *)
(***************************************************************************)
\* how many cluster sizes are drawn in a build by Image(), from 2^9 up; the
\* builds of create_image draw the smallest
MaxBitsDrawn == 2
\* data clusters are drawn among the MaxData lowest cluster indices
MaxData == 2

\* the lengths of the backing file names given: None, a short name, and the
\* names that leave 56, 8, 0 and -1 bytes between the fixed header plus end
\* marker and the name in a cluster of 512 bytes
NameArgs == {NoneVal, 16} \cup {512 - k : k \in {168, 120, 112, 111}}

\* the lengths of the backing file formats given: None, "", "qcow2"
FmtArgs == {NoneVal, 0, 5}

\* cluster_bits = random.randrange(9, 21), as drawn
ClusterBitsDrawn ==
    {b \in PyRange(9, 21) :
         b < 9 + (IF call = "Image" THEN MaxBitsDrawn ELSE 1)}

\* random.getrandbits(2) and random.getrandbits(1) of create_header, and
\* random.randint(1, 3) of create_l1_table, as drawn: every value in a build
\* by Image(), one value in the builds of create_image
IncompatibleDrawn == IF call = "Image" THEN 0 .. 3 ELSE {1}
CompatibleDrawn == IF call = "Image" THEN 0 .. 1 ELSE {1}
L1OffsetDrawn == IF call = "Image" THEN 1 .. 3 ELSE {1}

\* the image sizes and data clusters are drawn in full in the builds without
\* backing file; the builds with one draw the two smallest image sizes and
\* at most one data cluster
Plain == call = "Image" /\ bf_name_arg = NoneVal /\ bf_fmt_arg = NoneVal

\* img_size = random.randrange(0, MAX_IMAGE_SIZE + 1, cluster_size), as
\* drawn: no cluster, a few, one more than one L2 table maps, one more than
\* a one-cluster L1 table maps
ImgSizesDrawn(c_size) ==
    {n * c_size :
         n \in {m \in {0, MaxData + 1} \cup
                      (IF Plain
                       THEN {l2_size_of(c_size) + 1,
                             l2_size_of(c_size) * l2_size_of(c_size) + 1}
                       ELSE {}) :
                    m * c_size < MAX_IMAGE_SIZE + 1}}

\* _alloc_data: random.sample(range(1, num_of_cls + 1),
\*                            random.randint(0, num_of_cls)), as drawn
alloc_data(img_size, c_size, most) ==
    LET num_of_cls == img_size \div c_size
    IN SUBSET {c \in PyRange(1, num_of_cls + 1) : c <= most}

\* the feature ids kept by create_feature_name_table, as drawn: a first
\* <<feat_type, feat_bit>> and the ones following it
FirstFeatDrawn == {<<2, 63>>}
FeatIdDraws(n) ==
    {[i \in 1 .. n |-> <<(f[1] + i - 1) % 3, (f[2] + i - 1) % 64>>] :
         f \in FirstFeatDrawn}

\* the draws random.randint(0, 1) of create_entry for n entries, as drawn:
\* all 0, all 1, alternating
LowBitDraws(n) ==
    {[i \in 1 .. n |-> 0], [i \in 1 .. n |-> 1], [i \in 1 .. n |-> i % 2]}

\* the arguments of create_image, as given: no backing file, and one with a
\* format and a name that leave little room for feature names
CreateArgs == {<<NoneVal, NoneVal>>, <<512 - 168, 5>>}

\* the argument fields_to_fuzz of create_image, as given: None, the example
\* of the runner's usage text, a whole extension, an exact field without
\* fuzz function before the magic, a whole table before an exact field
FieldsToFuzzDrawn ==
    {NoFields,
     Items(<< <<"header">>, <<"header", "version">> >>),
     Items(<< <<"feature_name_table">> >>),
     Items(<< <<"l1_table", "l1_entry">>, <<"header", "magic">> >>),
     Items(<< <<"l2_tables">>, <<"header", "header_length">> >>)}

\* the state in which Image.__init__ starts
BuildStart ==
    /\ pc = "_size_params"
    /\ cluster_bits = 0
    /\ cluster_size = 0
    /\ image_size = 0
    /\ header = <<>>
    /\ backing_file_name = <<>>
    /\ backing_file_format = <<>>
    /\ feature_name_table = <<>>
    /\ end_of_extension_area = <<>>
    /\ ext_offset = 0
    /\ data_clusters = {}
    /\ l2_tables = <<>>
    /\ l1_table = <<>>
    /\ l1_run = <<0, 0>>
    /\ fuzz_status = "none"
    /\ fuzz_log = <<>>
    /\ image_file = NoFile

\* create_image(test_img_path, backing_file_name, backing_file_fmt,
\*              fields_to_fuzz) is called
InitCreate ==
    /\ call = "create_image"
    /\ \E args \in CreateArgs :
           /\ bf_name_arg = args[1]
           /\ bf_fmt_arg = args[2]
    /\ fields_to_fuzz \in FieldsToFuzzDrawn
    /\ BuildStart
    /\ AllocIdle
    /\ SelIdle
    /\ TestIdle

\* Image(backing_file_name, backing_file_fmt) is called
InitImage ==
    /\ call = "Image"
    /\ bf_name_arg \in NameArgs
    /\ bf_fmt_arg \in FmtArgs
    /\ fields_to_fuzz = NoFields
    /\ BuildStart

Init == InitImage /\ AllocIdle /\ SelIdle /\ TestIdle

\* cluster_bits, self.image_size = self._size_params();
\* self.cluster_size = 1 << cluster_bits
SizeParams ==
    /\ pc = "_size_params"
    /\ \E bits \in ClusterBitsDrawn :
           /\ cluster_bits' = bits
           /\ cluster_size' = 2 ^ bits
           /\ image_size' \in ImgSizesDrawn(2 ^ bits)
    /\ pc' = "create_header"
    /\ UNCHANGED <<call, bf_name_arg, bf_fmt_arg, header, backing_file_name,
                   backing_file_format, feature_name_table,
                   end_of_extension_area, ext_offset, data_clusters,
                   l2_tables, l1_table, l1_run>>
    /\ UNCHANGED allocvars
    /\ UNCHANGED selvars
    /\ UNCHANGED testvars
    /\ UNCHANGED fuzzvars
    /\ UNCHANGED image_file

CreateHeader ==
    /\ pc = "create_header"
    /\ \E version \in 2 .. 3 :
           IF version = 2
           THEN header' = create_header(cluster_bits, cluster_size,
                                        image_size, bf_name_arg, version, 0, 0)
           ELSE \E inc \in IncompatibleDrawn, comp \in CompatibleDrawn :
                    header' = create_header(cluster_bits, cluster_size,
                                            image_size, bf_name_arg, version,
                                            inc, comp)
    /\ pc' = "set_backing_file_name"
    /\ UNCHANGED <<call, bf_name_arg, bf_fmt_arg, cluster_bits, cluster_size,
                   image_size, backing_file_name, backing_file_format,
                   feature_name_table, end_of_extension_area, ext_offset,
                   data_clusters, l2_tables, l1_table, l1_run>>
    /\ UNCHANGED allocvars
    /\ UNCHANGED selvars
    /\ UNCHANGED testvars
    /\ UNCHANGED fuzzvars
    /\ UNCHANGED image_file

SetBackingFileName ==
    /\ pc = "set_backing_file_name"
    /\ backing_file_name' = set_backing_file_name(header, bf_name_arg)
    /\ pc' = "set_backing_file_format"
    /\ UNCHANGED <<call, bf_name_arg, bf_fmt_arg, cluster_bits, cluster_size,
                   image_size, header, backing_file_format,
                   feature_name_table, end_of_extension_area, ext_offset,
                   data_clusters, l2_tables, l1_table, l1_run>>
    /\ UNCHANGED allocvars
    /\ UNCHANGED selvars
    /\ UNCHANGED testvars
    /\ UNCHANGED fuzzvars
    /\ UNCHANGED image_file

SetBackingFileFormat ==
    /\ pc = "set_backing_file_format"
    /\ LET r == set_backing_file_format(header, cluster_size, bf_fmt_arg)
       IN /\ backing_file_format' = r.fields
          /\ ext_offset' = r.offset
    /\ pc' = "create_feature_name_table"
    /\ UNCHANGED <<call, bf_name_arg, bf_fmt_arg, cluster_bits, cluster_size,
                   image_size, header, backing_file_name, feature_name_table,
                   end_of_extension_area, data_clusters, l2_tables, l1_table,
                   l1_run>>
    /\ UNCHANGED allocvars
    /\ UNCHANGED selvars
    /\ UNCHANGED testvars
    /\ UNCHANGED fuzzvars
    /\ UNCHANGED image_file

CreateFeatureNameTable ==
    /\ pc = "create_feature_name_table"
    /\ \E ids \in FeatIdDraws(fnt_loops(num_fnt_entries(header, cluster_size,
                                                        ext_offset))) :
           LET r == create_feature_name_table(header, cluster_size,
                                              ext_offset, ids)
           IN /\ feature_name_table' = r.fields
              /\ ext_offset' = r.offset
    /\ pc' = "set_end_of_extension_area"
    /\ UNCHANGED <<call, bf_name_arg, bf_fmt_arg, cluster_bits, cluster_size,
                   image_size, header, backing_file_name, backing_file_format,
                   end_of_extension_area, data_clusters, l2_tables, l1_table,
                   l1_run>>
    /\ UNCHANGED allocvars
    /\ UNCHANGED selvars
    /\ UNCHANGED testvars
    /\ UNCHANGED fuzzvars
    /\ UNCHANGED image_file

SetEndOfExtensionArea ==
    /\ pc = "set_end_of_extension_area"
    /\ end_of_extension_area' = set_end_of_extension_area(ext_offset)
    /\ pc' = "_alloc_data"
    /\ UNCHANGED <<call, bf_name_arg, bf_fmt_arg, cluster_bits, cluster_size,
                   image_size, header, backing_file_name, backing_file_format,
                   feature_name_table, ext_offset, data_clusters, l2_tables,
                   l1_table, l1_run>>
    /\ UNCHANGED allocvars
    /\ UNCHANGED selvars
    /\ UNCHANGED testvars
    /\ UNCHANGED fuzzvars
    /\ UNCHANGED image_file

AllocData ==
    /\ pc = "_alloc_data"
    /\ data_clusters' \in alloc_data(image_size, cluster_size,
                                     IF Plain THEN MaxData ELSE 1)
    /\ pc' = "create_l2_tables"
    /\ UNCHANGED <<call, bf_name_arg, bf_fmt_arg, cluster_bits, cluster_size,
                   image_size, header, backing_file_name, backing_file_format,
                   feature_name_table, end_of_extension_area, ext_offset,
                   l2_tables, l1_table, l1_run>>
    /\ UNCHANGED allocvars
    /\ UNCHANGED selvars
    /\ UNCHANGED testvars
    /\ UNCHANGED fuzzvars
    /\ UNCHANGED image_file

CreateL2Tables ==
    /\ pc = "create_l2_tables"
    /\ IF Cardinality(data_clusters) = 0
       THEN l2_tables' = <<>>
       ELSE LET v_meta_data == {0}
                n == Cardinality(data_clusters)
                l2_size == l2_size_of(cluster_size)
                low_lim == low_lim_of(n, image_size, cluster_size)
                version == getitem(header, "version")[1].value
            IN \E temp \in random_shuffle(SortedSeq(data_clusters)) :
               \E sizes \in binding_sizes(n, low_lim, l2_size) :
               \E ids \in entry_ids_draws(sizes, 1, l2_size) :
               \E l2_clusters \in get_available_clusters(
                                      data_clusters \cup v_meta_data,
                                      Len(sizes)) :
               \E clusters \in list_of_set(l2_clusters) :
               \E bits \in LowBitDraws(n) :
                   l2_tables' = create_l2_tables(cluster_size, version, temp,
                                                 sizes, ids, clusters, bits)
    /\ pc' = "create_l1_table"
    /\ UNCHANGED <<call, bf_name_arg, bf_fmt_arg, cluster_bits, cluster_size,
                   image_size, header, backing_file_name, backing_file_format,
                   feature_name_table, end_of_extension_area, ext_offset,
                   data_clusters, l1_table, l1_run>>
    /\ UNCHANGED allocvars
    /\ UNCHANGED selvars
    /\ UNCHANGED testvars
    /\ UNCHANGED fuzzvars
    /\ UNCHANGED image_file

CreateL1Table ==
    /\ pc = "create_l1_table"
    /\ LET max_l2_size == max_l2_size_of(image_size, cluster_size)
       IN /\ IF Cardinality(data_clusters) = 0
             THEN \E cluster \in L1OffsetDrawn :
                      /\ l1_table' = create_l1_placeholder(cluster,
                                                           cluster_size)
                      /\ l1_run' = <<cluster, 1>>
                      /\ header' = set_value(
                             set_value(header, "l1_size", max_l2_size),
                             "l1_table_offset", cluster * cluster_size)
             ELSE LET l2_cluster_ids ==
                          l2_cluster_ids_of(l2_tables, cluster_size)
                      v_meta_data == {0} \cup l2_cluster_ids
                      all_used == data_clusters \cup v_meta_data
                  IN \E l1_entries_ids \in random_sample_range(
                            0, max_l2_size, Cardinality(l2_cluster_ids)) :
                     \E l2_ids \in list_of_set(l2_cluster_ids) :
                     \E lst \in list_of_set(adjacent_free(all_used)) :
                     \E first \in get_adjacent_clusters(
                            all_used, l1_size_of(l1_entries_ids, cluster_size),
                            lst) :
                         /\ l1_table' = create_l1_entries(
                                first, l1_entries_ids, l2_ids, cluster_size)
                         /\ l1_run' = <<first, l1_size_of(l1_entries_ids,
                                                          cluster_size)>>
                         /\ header' = set_value(
                                set_value(header, "l1_size", max_l2_size),
                                "l1_table_offset", first * cluster_size)
    /\ pc' = "built"
    /\ UNCHANGED <<call, bf_name_arg, bf_fmt_arg, cluster_bits, cluster_size,
                   image_size, backing_file_name, backing_file_format,
                   feature_name_table, end_of_extension_area, ext_offset,
                   data_clusters, l2_tables>>
    /\ UNCHANGED allocvars
    /\ UNCHANGED selvars
    /\ UNCHANGED testvars
    /\ UNCHANGED fuzzvars
    /\ UNCHANGED image_file

NextImage ==
    \/ SizeParams
    \/ CreateHeader
    \/ SetBackingFileName
    \/ SetBackingFileFormat
    \/ CreateFeatureNameTable
    \/ SetEndOfExtensionArea
    \/ AllocData
    \/ CreateL2Tables
    \/ CreateL1Table

\* Image.__iter__ and Image._join: the sub-structures in the order they are
\* joined into self.data
join(hdr, bf_format, fnt, end_area, bf_name, l1, l2) ==
    hdr \o bf_format \o fnt \o end_area \o bf_name \o l1 \o l2

(***************************************************************************)
(* Image.write: struct.pack and the file written                           *)
(***************************************************************************)
\* the end of the fixed header, calcsize('>I') + 100; the file is kept byte
\* by byte up to here
HeaderArea == 104

\* the bytes of a Python string: the magic, the feature name, and the
\* backing file name and format given, which are 'x' * n
ord_of(str) ==
    IF str.text = "QFI\\xfb" THEN <<81, 70, 73, 251>>
    ELSE IF str.text = "some cool feature"
         THEN <<115, 111, 109, 101, 32, 99, 111, 111, 108, 32, 102, 101, 97,
                116, 117, 114, 101>>
         ELSE [i \in 1 .. str.len |-> 120]

RECURSIVE pack_int_little_endian(_, _)
\* mutant: the least significant byte first
pack_int_little_endian(value, width) ==
    IF width = 0 THEN <<>>
    ELSE <<value % 256>> \o pack_int_little_endian(value \div 256, width - 1)

RECURSIVE pack_int(_, _)
\* struct.pack('>I' | '>Q' | 'B', value): the integer in 'width' bytes, the
\* most significant first
pack_int(value, width) ==
    IF width = 0 THEN <<>>
    ELSE pack_int(value \div 256, width - 1) \o <<value % 256>>

\* struct.pack(fmt, value); a string is cut or filled up with zero bytes to
\* the size of the format
pack(fmt, value) ==
    IF fmt.code = "s"
    THEN [i \in 1 .. fmt.size |->
              IF i <= Len(ord_of(value)) THEN ord_of(value)[i] ELSE 0]
    ELSE pack_int(value, fmt.size)

\* image_file.seek(field.offset); image_file.write(struct.pack(...)): the
\* first HeaderArea bytes of the file after it
write_field(head, field) ==
    IF calcsize(field.fmt) = 0 \/ field.offset >= HeaderArea THEN head
    ELSE LET bytes == pack(field.fmt, field.value)
             last == Min({HeaderArea, field.offset + Len(bytes)})
         IN SubSeq(head, 1, field.offset)
            \o SubSeq(bytes, 1, last - field.offset)
            \o SubSeq(head, last + 1, HeaderArea)

RECURSIVE write_fields(_, _, _)
\* the loop 'for field in self.data' from the i-th field on, over the
\* fields that start in the first HeaderArea bytes
write_fields(head, data, i) ==
    IF i > Len(data) THEN head
    ELSE write_fields(write_field(head, data[i]), data, i + 1)

\* image_file.seek(0, 2); image_file.tell(): the end of the last byte
\* written
file_size(data) ==
    Max({0} \cup {data[i].offset + calcsize(data[i].fmt) :
                      i \in {j \in DOMAIN data : calcsize(data[j].fmt) > 0}})

\* mutant: the size is left as it is
rounded_not(size, c_size) == size

\* (size + self.cluster_size - 1) & ~(self.cluster_size - 1), for a
\* cluster size that is a power of two
rounded(size, c_size) == ((size + c_size - 1) \div c_size) * c_size

\* Image.write(filename): on the image built by Image(), or by create_image
\* after image.fuzz has returned
Write ==
    /\ pc = IF call = "create_image" THEN "fuzzed" ELSE "built"
    /\ LET data == join(header, backing_file_format, feature_name_table,
                        end_of_extension_area, backing_file_name, l1_table,
                        l2_tables)
           size == file_size(data)
       IN image_file' =
              [size |-> IF rounded(size, cluster_size) > size
                        THEN rounded(size, cluster_size) ELSE size,
               padded |-> rounded(size, cluster_size) > size,
               head |-> write_fields(
                            [p \in 1 .. HeaderArea |-> 0],
                            SelectSeq(data,
                                      LAMBDA f : f.offset < HeaderArea), 1)]
    /\ pc' = "written"
    /\ UNCHANGED <<call, bf_name_arg, bf_fmt_arg, cluster_bits, cluster_size,
                   image_size, header, backing_file_name, backing_file_format,
                   feature_name_table, end_of_extension_area, ext_offset,
                   data_clusters, l2_tables, l1_table, l1_run>>
    /\ UNCHANGED allocvars
    /\ UNCHANGED selvars
    /\ UNCHANGED testvars
    /\ UNCHANGED fuzzvars

Next ==
    \/ NextImage
    \/ Write

Spec == Init /\ [][Next]_vars

(***************************************************************************)
(* Field fuzzer: qcow2/fuzz.py (and the older template/fuzz.py)            *)
(***************************************************************************)
\* The widths of the integer types, in bits.  The program has 32 and 64;
\* the model keeps every constraint table as written and scales the two
\* widths down so that every value of a type can be enumerated.
Bits32 == 7
Bits64 == 8

UINT32 == 2 ^ Bits32 - 1
UINT64 == 2 ^ Bits64 - 1
\* Most significant bit orders
UINT32_M == Bits32 - 1
UINT64_M == Bits64 - 1

\* a fuzz function is being called on its own, not from Image.fuzz
OwnCall == fz_pc # "idle"

\* random.randint(a, b), as drawn: every value in a call of a fuzz function
\* on its own, the lowest and the highest value within Image.fuzz
randint(a, b) == IF OwnCall THEN a .. b ELSE {a, b}

\* the draws random.sample(range(lo, hi + 1), random.randint(0, hi - lo + 1))
\* of random_bits, as sets of bit positions: every subset in a call of a
\* fuzz function on its own; none, the lowest one and all within Image.fuzz
bit_sample(lo, hi) ==
    IF OwnCall THEN SUBSET (lo .. hi) ELSE {{}, {lo}, lo .. hi}

RECURSIVE total_length(_, _)
\* reduce(lambda x, y: x + y[1] - y[0] + 1, intervals, 0), from interval i on
total_length(intervals, i) ==
    IF i > Len(intervals) THEN 0
    ELSE intervals[i][2] - intervals[i][1] + 1 + total_length(intervals, i + 1)

RECURSIVE shift_over_gaps_short(_, _, _)
\* mutant: the shift over a gap leaves out the "- 1"
shift_over_gaps_short(r, intervals, i) ==
    IF i >= Len(intervals) THEN r
    ELSE shift_over_gaps_short(
             r + (IF r > intervals[i][2]
                  THEN intervals[i + 1][1] - intervals[i][2] ELSE 0),
             intervals, i + 1)

RECURSIVE shift_over_gaps(_, _, _)
\* "for x in zip(intervals, intervals[1:]):
\*      r = r + (r > x[0][1]) * (x[1][0] - x[0][1] - 1)", from pair i on
shift_over_gaps(r, intervals, i) ==
    IF i >= Len(intervals) THEN r
    ELSE shift_over_gaps(
             r + (IF r > intervals[i][2]
                  THEN intervals[i + 1][1] - intervals[i][2] - 1 ELSE 0),
             intervals, i + 1)

\* random_from_intervals(intervals): the values it can return
random_from_intervals(intervals) ==
    LET total == total_length(intervals, 1)
    IN {shift_over_gaps(d + intervals[1][1], intervals, 1) :
            d \in randint(0, total - 1)}

RECURSIVE mask_of(_)
\* "for bit in bit_numbers: val |= 1 << bit"
mask_of(bit_numbers) ==
    IF bit_numbers = {} THEN 0
    ELSE LET b == Min(bit_numbers)
         IN 2 ^ b + mask_of(bit_numbers \ {b})

RECURSIVE bit_numbers_draws(_, _)
\* the bit positions random_bits can select in the ranges i .. Len(bit_ranges)
bit_numbers_draws(bit_ranges, i) ==
    IF i > Len(bit_ranges) THEN {{}}
    ELSE {s1 \cup s2 :
              s1 \in bit_sample(bit_ranges[i][1], bit_ranges[i][2]),
              s2 \in bit_numbers_draws(bit_ranges, i + 1)}

\* random_bits(bit_ranges): the masks it can return
random_bits(bit_ranges) ==
    {mask_of(bits) : bits \in bit_numbers_draws(bit_ranges, 1)}

\* mutant: the value drawn is returned even when it equals the current one
validator_no_redraw(current, intervals) ==
    random_from_intervals(intervals)

\* validator(current, intervals): it calls itself again while the value
\* drawn equals current, so it returns any value drawn that differs
validator(current, intervals) ==
    {val \in random_from_intervals(intervals) : val # current}

\* bit_validator(current, bit_ranges): likewise for masks
bit_validator(current, bit_ranges) ==
    {val \in random_bits(bit_ranges) : val # current}

\* a constraint that is a list of intervals, and one that is a value
Ivals(list) == [kind |-> "list", list |-> list, value |-> 0]
Lit(v) == [kind |-> "value", list |-> <<>>, value |-> v]

\* iter_validate(c) of selector
iter_validate(current, c, is_bitmask) ==
    IF c.kind = "list"
    THEN IF is_bitmask THEN bit_validator(current, c.list)
         ELSE validator(current, c.list)
    ELSE {c.value}

RECURSIVE fuzz_values_draws(_, _, _, _)
\* [iter_validate(c) for c in constraints], from constraint i on: the lists
\* it can build
fuzz_values_draws(current, constraints, is_bitmask, i) ==
    IF i > Len(constraints) THEN {<<>>}
    ELSE {<<v>> \o rest :
              v \in iter_validate(current, constraints[i], is_bitmask),
              rest \in fuzz_values_draws(current, constraints, is_bitmask,
                                         i + 1)}

\* list.remove(x): the list without the first x, unchanged if x is not in it
list_remove(lst, x) ==
    IF \E i \in DOMAIN lst : lst[i] = x
    THEN LET first == Min({i \in DOMAIN lst : lst[i] = x})
         IN SubSeq(lst, 1, first - 1) \o SubSeq(lst, first + 1, Len(lst))
    ELSE lst

\* random.choice(lst): the values it can return
random_choice(lst) == {lst[i] : i \in DOMAIN lst}

\* selector(current, constraints, is_bitmask) of qcow2/fuzz.py: the values
\* it can return
selector(current, constraints, is_bitmask) ==
    UNION {random_choice(list_remove(fuzz_values, current)) :
               fuzz_values \in fuzz_values_draws(current, constraints,
                                                 is_bitmask, 1)}

\* selector(current, constraints) of template/fuzz.py: the values it can
\* return
template_selector(current, constraints) ==
    UNION {random_choice(fuzz_values) :
               fuzz_values \in fuzz_values_draws(current, constraints,
                                                 FALSE, 1)}

\* the functions of qcow2/fuzz.py that fuzz a field, by name
FuzzNames ==
    {"magic", "version", "backing_file_offset", "backing_file_size",
     "cluster_bits", "size", "crypt_method", "l1_size", "l1_table_offset",
     "refcount_table_offset", "refcount_table_clusters", "nb_snapshots",
     "snapshots_offset", "incompatible_features", "compatible_features",
     "autoclear_features", "refcount_order", "header_length"}

\* the functions of template/fuzz.py that fuzz a field, by name
TemplateFuzzNames ==
    {"magic", "version", "backing_file_offset", "backing_file_size",
     "cluster_bits", "size", "crypt_method", "l1_size", "l1_table_offset",
     "refcount_table_offset", "refcount_table_clusters", "nb_snapshots",
     "snapshots_offset"}

\* the functions that pass is_bitmask to selector
BitmaskNames ==
    {"incompatible_features", "compatible_features", "autoclear_features"}

\* the table 'constraints' of each function of qcow2/fuzz.py
constraints_of(name) ==
    CASE name = "version" ->
             << Ivals(<< <<2, 3>> >>), Ivals(<< <<0, 1>>, <<4, UINT32>> >>) >>
      [] name = "cluster_bits" ->
             << Ivals(<< <<9, 20>> >>), Ivals(<< <<0, 9>>, <<20, UINT32>> >>) >>
      [] name = "crypt_method" ->
             << Ivals(<< <<0, 1>> >>), Ivals(<< <<2, UINT32>> >>) >>
      [] name = "incompatible_features" ->
             << Ivals(<< <<0, 1>> >>), Ivals(<< <<0, UINT64_M>> >>) >>
      [] name \in {"compatible_features", "autoclear_features"} ->
             << Ivals(<< <<0, UINT64_M>> >>) >>
      [] name = "header_length" ->
             << Lit(72), Lit(104), Ivals(<< <<0, UINT32>> >>) >>
      [] name \in {"backing_file_size", "l1_size", "refcount_table_clusters",
                   "nb_snapshots", "refcount_order"} ->
             << Ivals(<< <<0, UINT32>> >>) >>
      [] name \in {"backing_file_offset", "size", "l1_table_offset",
                   "refcount_table_offset", "snapshots_offset"} ->
             << Ivals(<< <<0, UINT64>> >>) >>

\* the table 'constraints' of each function of template/fuzz.py
template_constraints_of(name) ==
    CASE name = "version" ->
             << Ivals(<< <<2, 3>> >>), Ivals(<< <<0, 1>>, <<4, UINT32>> >>) >>
      [] name = "cluster_bits" ->
             << Ivals(<< <<9, 20>> >>), Ivals(<< <<0, 9>>, <<20, UINT32>> >>) >>
      [] name = "crypt_method" ->
             << Ivals(<< <<0, 1>> >>), Ivals(<< <<2, UINT32>> >>) >>
      [] name = "size" ->
             << Ivals(<< <<0, UINT64>> >>) >>
      [] name \in {"backing_file_size", "l1_size", "refcount_table_clusters",
                   "nb_snapshots"} ->
             << Ivals(<< <<1, UINT32>> >>) >>
      [] name \in {"backing_file_offset", "l1_table_offset",
                   "refcount_table_offset", "snapshots_offset"} ->
             << Ivals(<< <<1, UINT64>> >>) >>

\* getattr(fuzz, name)(current) for a function of qcow2/fuzz.py: the values
\* it can return
fuzz_function(name, current) ==
    IF name = "magic" THEN {current}
    ELSE selector(current, constraints_of(name), name \in BitmaskNames)

\* the same for a function of template/fuzz.py
template_fuzz_function(name, current) ==
    IF name = "magic" THEN {current}
    ELSE template_selector(current, template_constraints_of(name))

(***************************************************************************)
(* One call of a fuzz function as a state machine of its own: any          *)
(* function and a current value as input, the call as the step.            *)
(***************************************************************************)
\* the current values given: the bounds and literals of the constraint
\* tables, their neighbours, and the largest value of each width
CurrentsDrawn ==
    {0, 1, 2, 3, 4, 8, 9, 10, 12, 19, 20, 21, 72, 73, 104, UINT32, UINT64}

InitSelector ==
    /\ fz_module \in {"qcow2", "template"}
    /\ fz_name \in (IF fz_module = "qcow2" THEN FuzzNames
                    ELSE TemplateFuzzNames) \ {"magic"}
    /\ fz_current \in CurrentsDrawn
    /\ fz_result = 0
    /\ fz_pc = "call"
    /\ fz_intervals = <<>>
    /\ fz_draw = 0
    /\ AllocIdle
    /\ ImgIdle
    /\ TestIdle

FuzzCall ==
    /\ fz_pc = "call"
    /\ fz_module = "qcow2"
    /\ fz_result' \in fuzz_function(fz_name, fz_current)
    /\ fz_pc' = "returned"
    /\ UNCHANGED <<fz_module, fz_name, fz_current, fz_intervals, fz_draw>>
    /\ UNCHANGED <<allocvars, imgvars>>
    /\ UNCHANGED testvars

TemplateFuzzCall ==
    /\ fz_pc = "call"
    /\ fz_module = "template"
    /\ fz_result' \in template_fuzz_function(fz_name, fz_current)
    /\ fz_pc' = "returned"
    /\ UNCHANGED <<fz_module, fz_name, fz_current, fz_intervals, fz_draw>>
    /\ UNCHANGED <<allocvars, imgvars>>
    /\ UNCHANGED testvars

NextSelector ==
    \/ FuzzCall
    \/ TemplateFuzzCall

SpecSelector == InitSelector /\ [][NextSelector]_vars

(***************************************************************************)
(* Image.fuzz, as create_image calls it on the image it has built.  The    *)
(* fields of a sub-structure are the objects that _join puts in self.data; *)
(* the model names each field by its place in the joined list.             *)
(***************************************************************************)
\* how many coins are won in one call of Image.fuzz, at most
MaxFuzzed == 1

\* the sub-structures of an image, by attribute name
image_of(hdr, bf_format, fnt, end_area, bf_name, l1, l2) ==
    [header |-> hdr, backing_file_format |-> bf_format,
     feature_name_table |-> fnt, end_of_extension_area |-> end_area,
     backing_file_name |-> bf_name, l1_table |-> l1, l2_tables |-> l2]

\* Image.__iter__: the order of the sub-structures
iter_order ==
    <<"header", "backing_file_format", "feature_name_table",
      "end_of_extension_area", "backing_file_name", "l1_table", "l2_tables">>

RECURSIVE joined_before(_, _)
\* how many fields _join puts before those of the i-th sub-structure
joined_before(im, i) ==
    IF i = 1 THEN 0
    ELSE joined_before(im, i - 1) + Len(im[iter_order[i - 1]])

\* the place in iter_order of the attribute named s
order_of(s) == CHOOSE i \in DOMAIN iter_order : iter_order[i] = s

\* the places in the joined list of the fields of getattr(self, s)
places_of(im, s) ==
    LET before == joined_before(im, order_of(s))
    IN (before + 1) .. (before + Len(im[s]))

\* the sub-structures again, from the joined list of their fields
unjoin(im, data) ==
    [s \in DOMAIN im |->
         LET before == joined_before(im, order_of(s))
         IN SubSeq(data, before + 1, before + Len(im[s]))]

\* mutant: an item visits the field after each of its fields as well
item_places_and_next(im, data, item) ==
    SortedSeq({j \in DOMAIN data :
                   \E q \in places_of(im, item[1]) :
                       /\ (Len(item) # 1) => (data[q].name = item[2])
                       /\ j \in {q, q + 1}})

\* the fields an item of fields_to_fuzz visits, in order: those of
\* getattr(self, item[0]), or of getattr(self, item[0])[item[1]]
item_places(im, data, item) ==
    SortedSeq({j \in places_of(im, item[1]) :
                   (Len(item) # 1) => (data[j].name = item[2])})

\* mutant: a coin is flipped for every field visited
flips_coin_always(item) == TRUE

\* "if len(item) == 1": the fields of a whole sub-structure are fuzzed "if
\* coin()", as those of self.data are when fields_to_fuzz is None
flips_coin(item) == Len(item) = 1

\* only the loop over getattr(self, item[0])[item[1]] has
\* "try: ... except AttributeError: pass"
catches_attribute_error(item) == Len(item) # 1

\* "field.value = getattr(fuzz, field.name)(field.value)": the outcomes
call_fuzz(field, item, coin) ==
    IF field.name \in FuzzNames
    THEN {[value |-> v, status |-> "ok", coin |-> coin, called |-> TRUE] :
              v \in fuzz_function(field.name, field.value)}
    ELSE {[value |-> field.value,
           status |-> IF catches_attribute_error(item) THEN "ok"
                      ELSE "AttributeError",
           coin |-> coin, called |-> FALSE]}

\* one pass of a loop "for field in ...": the outcomes for one field, with
\* 'wins' coins still to be won
fuzz_field(field, item, wins) ==
    IF flips_coin(item)
    THEN {[value |-> field.value, status |-> "ok", coin |-> "lost",
           called |-> FALSE]}
         \cup (IF wins > 0 THEN call_fuzz(field, item, "won") ELSE {})
    ELSE call_fuzz(field, item, "none")

RECURSIVE fuzz_fields(_, _, _, _, _, _, _)
\* a loop "for field in ..." of Image.fuzz over the fields at 'places', from
\* the p-th on, for the k-th item: the outcomes
fuzz_fields(data, places, p, item, k, wins, log) ==
    IF p > Len(places)
    THEN {[data |-> data, status |-> "returned", wins |-> wins, log |-> log]}
    ELSE LET j == places[p]
             entry(o) == [item |-> k, place |-> j, coin |-> o.coin,
                          called |-> o.called]
         IN UNION {
                IF o.coin = "lost"
                THEN fuzz_fields(data, places, p + 1, item, k, wins, log)
                ELSE IF o.status = "ok"
                THEN fuzz_fields([data EXCEPT ![j].value = o.value], places,
                                 p + 1, item, k,
                                 IF o.coin = "won" THEN wins - 1 ELSE wins,
                                 Append(log, entry(o)))
                ELSE {[data |-> data, status |-> o.status, wins |-> wins,
                       log |-> Append(log, entry(o))]} :
                o \in fuzz_field(data[j], item, wins)}

RECURSIVE fuzz_items(_, _, _, _, _, _)
\* "for item in fields_to_fuzz", from the k-th item on: the outcomes
fuzz_items(im, data, items, k, wins, log) ==
    IF k > Len(items)
    THEN {[data |-> data, status |-> "returned", wins |-> wins, log |-> log]}
    ELSE UNION {
             IF r.status = "returned"
             THEN fuzz_items(im, r.data, items, k + 1, r.wins, r.log)
             ELSE {r} :
             r \in fuzz_fields(data, item_places(im, data, items[k]), 1,
                               items[k], k, wins, log)}

\* Image.fuzz(fields_to_fuzz): the outcomes
image_fuzz(im, to_fuzz) ==
    LET data == join(im.header, im.backing_file_format,
                     im.feature_name_table, im.end_of_extension_area,
                     im.backing_file_name, im.l1_table, im.l2_tables)
    IN IF to_fuzz.is_none
       THEN fuzz_fields(data, [j \in DOMAIN data |-> j], 1, <<"data">>, 0,
                        MaxFuzzed, <<>>)
       ELSE fuzz_items(im, data, to_fuzz.items, 1, MaxFuzzed, <<>>)

\* image.fuzz(fields_to_fuzz) of create_image
Fuzz ==
    /\ pc = "built"
    /\ call = "create_image"
    /\ LET im == image_of(header, backing_file_format, feature_name_table,
                          end_of_extension_area, backing_file_name, l1_table,
                          l2_tables)
       IN \E r \in image_fuzz(im, fields_to_fuzz) :
              LET after == unjoin(im, r.data)
              IN /\ header' = after.header
                 /\ backing_file_format' = after.backing_file_format
                 /\ feature_name_table' = after.feature_name_table
                 /\ end_of_extension_area' = after.end_of_extension_area
                 /\ backing_file_name' = after.backing_file_name
                 /\ l1_table' = after.l1_table
                 /\ l2_tables' = after.l2_tables
                 /\ fuzz_status' = r.status
                 /\ fuzz_log' = r.log
                 /\ pc' = IF r.status = "returned" THEN "fuzzed" ELSE "raised"
    /\ UNCHANGED <<call, bf_name_arg, bf_fmt_arg, cluster_bits, cluster_size,
                   image_size, ext_offset, data_clusters, l1_run,
                   fields_to_fuzz, image_file>>
    /\ UNCHANGED allocvars
    /\ UNCHANGED selvars
    /\ UNCHANGED testvars

NextCreate ==
    \/ NextImage
    \/ Fuzz
    \/ Write

SpecCreate == InitCreate /\ [][NextCreate]_vars

\* the arguments with which Image.__init__ calls create_header and
\* set_backing_file_name, as given: every cluster size of _size_params, an
\* image of no cluster or of five, and no name, an empty one, a short one,
\* the longest that fits, and two that do not
HeaderNameArgs(c_size) ==
    {NoneVal, 0, 16, c_size - 112, c_size - 111, c_size + 1}

InitHeader ==
    /\ call = "Image"
    /\ pc = "create_header"
    /\ cluster_bits \in PyRange(9, 21)
    /\ cluster_size = 2 ^ cluster_bits
    /\ image_size \in {n * cluster_size : n \in {0, 5}}
    /\ bf_name_arg \in HeaderNameArgs(cluster_size)
    /\ bf_fmt_arg = NoneVal
    /\ fields_to_fuzz = NoFields
    /\ header = <<>>
    /\ backing_file_name = <<>>
    /\ backing_file_format = <<>>
    /\ feature_name_table = <<>>
    /\ end_of_extension_area = <<>>
    /\ ext_offset = 0
    /\ data_clusters = {}
    /\ l2_tables = <<>>
    /\ l1_table = <<>>
    /\ l1_run = <<0, 0>>
    /\ fuzz_status = "none"
    /\ fuzz_log = <<>>
    /\ image_file = NoFile
    /\ AllocIdle
    /\ SelIdle
    /\ TestIdle

NextHeader == CreateHeader \/ SetBackingFileName

SpecHeader == InitHeader /\ [][NextHeader]_vars

\* the most data clusters of the builds that start at create_l2_tables
MaxTableData == 3

\* self.data_clusters when create_l2_tables is called, as drawn: the first
\* clusters of the image, and a set that leaves free clusters in between
TableDataDrawn(num_of_cls) ==
    {S \in {PyRange(1, k + 1) : k \in 1 .. MaxTableData} \cup
            {{2, 4, 5}} :
         S \subseteq PyRange(1, num_of_cls + 1)}

\* the stages of Image.__init__ from create_header to
\* set_end_of_extension_area have run, for the smallest cluster size and
\* no backing file
ExtensionsBuilt ==
    /\ \E version \in 2 .. 3 :
           header = create_header(cluster_bits, cluster_size, image_size,
                                  bf_name_arg, version, 0, 0)
    /\ backing_file_name = set_backing_file_name(header, bf_name_arg)
    /\ backing_file_format =
           set_backing_file_format(header, cluster_size, bf_fmt_arg).fields
    /\ \E ids \in FeatIdDraws(fnt_loops(num_fnt_entries(header, cluster_size,
                                                        104))) :
           LET r == create_feature_name_table(header, cluster_size, 104, ids)
           IN /\ feature_name_table = r.fields
              /\ ext_offset = r.offset
    /\ end_of_extension_area = set_end_of_extension_area(ext_offset)
    /\ l2_tables = <<>>
    /\ l1_table = <<>>
    /\ l1_run = <<0, 0>>
    /\ fuzz_status = "none"
    /\ fuzz_log = <<>>
    /\ image_file = NoFile
    /\ AllocIdle
    /\ SelIdle
    /\ TestIdle

\* the builds of Image() with the smallest cluster size and no backing
\* file, taken up where create_l2_tables is called: the image has as many
\* clusters as one, two, three or sixty-five L2 tables map in full
InitTables ==
    /\ call = "Image"
    /\ pc = "create_l2_tables"
    /\ cluster_bits = 9
    /\ cluster_size = 2 ^ cluster_bits
    /\ image_size \in
           {n * cluster_size :
                n \in {MaxTableData, l2_size_of(cluster_size) + 1,
                       2 * l2_size_of(cluster_size) + 1,
                       l2_size_of(cluster_size) * l2_size_of(cluster_size)
                           + 1}}
    /\ bf_name_arg = NoneVal
    /\ bf_fmt_arg = NoneVal
    /\ fields_to_fuzz = NoFields
    /\ data_clusters \in TableDataDrawn(image_size \div cluster_size)
    /\ ExtensionsBuilt

NextTables == CreateL2Tables \/ CreateL1Table

SpecTables == InitTables /\ [][NextTables]_vars

\* the argument fields_to_fuzz of the images written: a sub-structure of
\* two fields, each fuzzed or not as its coin falls, and the exact field
\* cluster_bits
WriteFieldsDrawn ==
    {Items(<< <<"end_of_extension_area">> >>),
     Items(<< <<"header", "cluster_bits">> >>)}

\* the builds of create_image without backing file, taken up where
\* create_l2_tables is called, in an image of a few clusters: no data, the
\* first cluster, and the last cluster alone, which leaves free clusters
\* below it
InitWrite ==
    /\ call = "create_image"
    /\ pc = "create_l2_tables"
    /\ cluster_bits = 9
    /\ cluster_size = 2 ^ cluster_bits
    /\ image_size = MaxTableData * cluster_size
    /\ bf_name_arg = NoneVal
    /\ bf_fmt_arg = NoneVal
    /\ fields_to_fuzz \in WriteFieldsDrawn
    /\ data_clusters \in {{}, {1}, {MaxTableData}}
    /\ ExtensionsBuilt

NextWrite ==
    \/ CreateL2Tables
    \/ CreateL1Table
    \/ Fuzz
    \/ Write

SpecWrite == InitWrite /\ [][NextWrite]_vars

(***************************************************************************)
(* Claims about the allocator                                              *)
(***************************************************************************)
\* the free indices of [1, max(used)]
FreeBelow(u) == PyRange(1, Max(u) + 1) \ u

\* C1: for a non-empty 'used' and n >= 0, _get_available_clusters returns
\* exactly n indices, none of them in 'used' and none of them 0; when fewer
\* than n indices are free in [1, max(used)] it returns all of them plus the
\* next indices above max(used).
C1_AvailableDisjoint ==
    (alloc_op = "available") =>
        /\ Cardinality(avail_res) = number
        /\ avail_res \cap used = {}
        /\ 0 \notin avail_res
        /\ (Cardinality(FreeBelow(used)) < number) =>
               avail_res = FreeBelow(used) \cup
                   ((Max(used) + 1) ..
                    (Max(used) + number - Cardinality(FreeBelow(used))))
        /\ (Cardinality(FreeBelow(used)) >= number) =>
               avail_res \subseteq FreeBelow(used)

\* C1 witness: a call that takes every free index below max(used) and has to
\* append above it
C1_Witness ==
    /\ alloc_op = "available"
    /\ number = 3
    /\ Cardinality(FreeBelow(used)) = 2
    /\ Max(used) + 1 \in avail_res

\* is every index of [start, start + n) free of u
RunFree(u, start, n) == \A i \in start .. (start + n - 1) : i \notin u

\* is lst in ascending order
Ascending(lst) == \A i \in 1 .. (Len(lst) - 1) : lst[i] < lst[i + 1]

\* C2: for a non-empty 'used' and n >= 1, _get_adjacent_clusters returns a
\* start >= 1 with [start, start + n) disjoint from 'used', whatever the
\* shuffle of the runs; with the free indices listed in ascending order it
\* returns max(used) + 1 only when [1, max(used)] holds no run of n free
\* indices.
C2_AdjacentDisjoint ==
    (alloc_op = "adjacent" /\ number >= 1) =>
        /\ adj_res >= 1
        /\ RunFree(used, adj_res, number)
        /\ (Ascending(free_list) /\ adj_res = Max(used) + 1) =>
               ~ \E start \in 1 .. Max(used) :
                     /\ start + number - 1 <= Max(used)
                     /\ RunFree(used, start, number)

\* C2 witness: a run of two found between used clusters although a shorter
\* run lies below it
C2_Witness ==
    /\ alloc_op = "adjacent"
    /\ number = 2
    /\ used = {0, 2, 5}
    /\ Ascending(free_list)
    /\ adj_res = 3

\* C17: on an empty 'used' both allocator operations raise: neither
\* _get_available_clusters nor _get_adjacent_clusters returns a result, for
\* any number asked for.
C17_EmptyUsedRaises ==
    (used = {}) =>
        /\ alloc_op \in {"none", "raised"}
        /\ avail_res = {}
        /\ adj_res = NoneVal

\* C17 witness: a call on an empty 'used' asking for two clusters has raised
C17_Witness ==
    /\ used = {}
    /\ number = 2
    /\ alloc_op = "raised"

(***************************************************************************)
(* Claims about the layout builder                                         *)
(***************************************************************************)
\* the index of the cluster a byte offset lies in
ClusterAt(offset) == offset \div cluster_size

\* the clusters that hold l2_entry fields
L2TableClusters == {ClusterAt(l2_tables[i].offset) : i \in DOMAIN l2_tables}

\* the data cluster an L2 entry value maps: (value - 2^63) div cluster_size
L2Target(v) == v.rest \div cluster_size

\* create_l2_tables has run
AfterL2 == pc \in {"create_l1_table", "built"}

\* C3: after create_l2_tables the L2 entries map the data clusters one to
\* one: every entry decodes to a member of data_clusters, every member of
\* data_clusters is the target of exactly one entry, and without data
\* clusters there is no L2 field.
C3_L2Bijection ==
    AfterL2 =>
        /\ \A i \in DOMAIN l2_tables :
               /\ l2_tables[i].name = "l2_entry"
               /\ l2_tables[i].value.bit63 = 1
               /\ L2Target(l2_tables[i].value) \in data_clusters
        /\ \A c \in data_clusters :
               Cardinality({i \in DOMAIN l2_tables :
                                L2Target(l2_tables[i].value) = c}) = 1
        /\ (data_clusters = {}) => (l2_tables = <<>>)

\* C3 witness: two data clusters bound to two L2 tables of a version 3
\* image, one entry with its low bit set
C3_Witness ==
    /\ pc = "built"
    /\ Cardinality(data_clusters) = 2
    /\ Cardinality(L2TableClusters) = 2
    /\ getitem(header, "version")[1].value = 3
    /\ \E i \in DOMAIN l2_tables : l2_tables[i].value.rest % 2 = 1

\* C4: after create_l1_table on a build with data clusters every l1_entry is
\* 2^63 plus the cluster-aligned offset of an existing L2 table, distinct
\* entries point at distinct tables, and there are as many entries as L2
\* tables.
C4_L1PointsAtL2 ==
    (pc = "built" /\ data_clusters # {}) =>
        /\ \A i \in DOMAIN l1_table :
               /\ l1_table[i].name = "l1_entry"
               /\ l1_table[i].value.bit63 = 1
               /\ l1_table[i].value.rest % cluster_size = 0
               /\ (l1_table[i].value.rest \div cluster_size) \in L2TableClusters
        /\ \A i, j \in DOMAIN l1_table :
               (i # j) => (l1_table[i].value # l1_table[j].value)
        /\ Len(l1_table) = Cardinality(L2TableClusters)

\* C4 witness: an L1 table of two entries for two L2 tables
C4_Witness ==
    /\ pc = "built"
    /\ Len(l1_table) = 2
    /\ Cardinality(L2TableClusters) = 2

\* the clusters of the run allocated for the L1 table
L1RunClusters == l1_run[1] .. (l1_run[1] + l1_run[2] - 1)

\* C5: at the end of a build the clusters claimed by the header ({0}), the
\* data clusters, the L2 tables and the L1 run are pairwise disjoint, and
\* cluster 0 is claimed by the header alone.
C5_ClustersDisjoint ==
    (pc = "built") =>
        /\ data_clusters \cap L2TableClusters = {}
        /\ data_clusters \cap L1RunClusters = {}
        /\ L2TableClusters \cap L1RunClusters = {}
        /\ 0 \notin data_clusters \cup L2TableClusters \cup L1RunClusters
        /\ L1RunClusters # {}
        /\ \A i \in DOMAIN l1_table :
               ClusterAt(l1_table[i].offset) \in L1RunClusters

\* C5 witness: two data clusters, two L2 tables appended above them and an
\* L1 run of two clusters above those
C5_Witness ==
    /\ pc = "built"
    /\ data_clusters = {1, 2}
    /\ L2TableClusters = {3, 4}
    /\ l1_run = <<5, 2>>

\* the joined field list of the image
Joined == join(header, backing_file_format, feature_name_table,
               end_of_extension_area, backing_file_name, l1_table, l2_tables)

\* do the byte ranges of two fields overlap
Overlap(f, g) ==
    /\ calcsize(f.fmt) > 0
    /\ calcsize(g.fmt) > 0
    /\ f.offset < g.offset + calcsize(g.fmt)
    /\ g.offset < f.offset + calcsize(f.fmt)

\* C6: in a built image no two fields of the joined list have overlapping
\* byte ranges.
C6_NoOverlap ==
    (pc = "built") =>
        \A i, j \in DOMAIN Joined :
            (i < j) => ~ Overlap(Joined[i], Joined[j])

\* the number of bits set in a mask below 4
PopCount(m) == (m % 2) + ((m \div 2) % 2)

\* the feature bits set in the header's incompatible and compatible masks
HeaderFeatureBits ==
    PopCount(getitem(header, "incompatible_features")[1].value) +
    PopCount(getitem(header, "compatible_features")[1].value)

\* C8: the feature name table holds one triplet per feature bit set in the
\* header's incompatible/compatible masks: it is absent when no bit is set,
\* and when present its ext_length is 48 times the number of bits set.
C8_FeatureTableMatchesMasks ==
    (pc = "built") =>
        /\ (HeaderFeatureBits = 0) => (feature_name_table = <<>>)
        /\ (feature_name_table # <<>>) =>
               /\ getitem(feature_name_table, "ext_length")[1].value =
                      48 * HeaderFeatureBits
               /\ Len(getitem(feature_name_table, "feature_type")) =
                      HeaderFeatureBits

(***************************************************************************)
(* Claims about the field fuzzer                                           *)
(***************************************************************************)
\* C7: every fuzz function but magic returns a value that differs from the
\* current one, for every current value.
C7_FuzzedValueDiffers ==
    (fz_pc = "returned") => (fz_result # fz_current)

\* C7 witness: header_length(72) has returned 104, the candidate left after
\* the literal 72 was removed
C7_Witness ==
    /\ fz_pc = "returned"
    /\ fz_module = "qcow2"
    /\ fz_name = "header_length"
    /\ fz_current = 72
    /\ fz_result = 104

(***************************************************************************)
(* Claims about Image.fuzz                                                 *)
(***************************************************************************)
\* C9: Image.fuzz never raises because a field's name has no fuzz function:
\* in each of its three paths such a field is skipped and the pass goes on,
\* so the call never ends with AttributeError.
C9_UnknownNameSkipped ==
    fuzz_status # "AttributeError"

\* the items of the explicit selection list given
ItemsGiven == fields_to_fuzz.items

\* the entries of a log
Entries(log) == {log[i] : i \in DOMAIN log}

\* what a call of Image.fuzz that leaves log' does to the fields
FuzzStep ==
    /\ \* a whole sub-structure (or the whole image): every field that
       \* reached its fuzz function has won a coin flipped for it
       \A e \in Entries(fuzz_log') :
           (e.item = 0 \/ Len(ItemsGiven[e.item]) = 1) => (e.coin = "won")
    /\ \* an exact field: no coin is flipped for it
       \A e \in Entries(fuzz_log') :
           (e.item # 0 /\ Len(ItemsGiven[e.item]) = 2) => (e.coin = "none")
    /\ \* an exact field: every field of that name in that structure is given
       \* to its fuzz function when there is one
       (fuzz_status' = "returned") =>
           \A k \in DOMAIN ItemsGiven :
               (Len(ItemsGiven[k]) = 2) =>
                   \A j \in places_of(
                                image_of(header, backing_file_format,
                                         feature_name_table,
                                         end_of_extension_area,
                                         backing_file_name, l1_table,
                                         l2_tables),
                                ItemsGiven[k][1]) :
                       (Joined[j].name = ItemsGiven[k][2]) =>
                           \E e \in Entries(fuzz_log') :
                               /\ e.item = k
                               /\ e.place = j
                               /\ e.called = (Joined[j].name \in FuzzNames)
    /\ \* only the fields given to a fuzz function change their value
       \A j \in DOMAIN Joined :
           (Joined'[j].value # Joined[j].value) =>
               \E e \in Entries(fuzz_log') : e.place = j /\ e.called
    /\ \* and a field given once to a fuzz function other than magic has
       \* changed its value
       \A j \in DOMAIN Joined :
           (/\ Joined[j].name # "magic"
            /\ Cardinality({i \in DOMAIN fuzz_log' :
                                fuzz_log'[i].place = j /\ fuzz_log'[i].called})
                   = 1) =>
               (Joined'[j].value # Joined[j].value)

PlacesListed ==
    {j \in DOMAIN Joined :
         \E k \in DOMAIN ItemsGiven :
             /\ j \in places_of(image_of(header, backing_file_format,
                                         feature_name_table,
                                         end_of_extension_area,
                                         backing_file_name, l1_table,
                                         l2_tables),
                                ItemsGiven[k][1])
             /\ (Len(ItemsGiven[k]) = 2) =>
                    (Joined[j].name = ItemsGiven[k][2])}

\* what a call of Image.fuzz leaves as it was
FuzzFrame ==
    /\ Len(header') = Len(header)
    /\ Len(backing_file_format') = Len(backing_file_format)
    /\ Len(feature_name_table') = Len(feature_name_table)
    /\ Len(end_of_extension_area') = Len(end_of_extension_area)
    /\ Len(backing_file_name') = Len(backing_file_name)
    /\ Len(l1_table') = Len(l1_table)
    /\ Len(l2_tables') = Len(l2_tables)
    /\ \A j \in DOMAIN Joined :
           /\ Joined'[j].offset = Joined[j].offset
           /\ Joined'[j].fmt = Joined[j].fmt
           /\ Joined'[j].name = Joined[j].name
    /\ (~ fields_to_fuzz.is_none) =>
           \A j \in DOMAIN Joined :
               (j \notin PlacesListed) =>
                   (Joined'[j].value = Joined[j].value)

\* C11: Image.fuzz changes nothing but values: the number and order of the
\* fields and every field's offset, format and name are as before the call,
\* and with a selection list the value of every field that is neither in a
\* listed sub-structure nor a listed exact field is as before.
C11_FuzzChangesValuesOnly ==
    [][(pc = "built" /\ pc' \in {"fuzzed", "raised"}) => FuzzFrame]_vars

\* C11 witness: fuzz([["l2_tables"], ["header", "header_length"]]) has
\* returned with header_length fuzzed to 0
C11_Witness ==
    /\ pc = "fuzzed"
    /\ fields_to_fuzz =
           Items(<< <<"l2_tables">>, <<"header", "header_length">> >>)
    /\ getitem(header, "header_length")[1].value = 0

HeaderValue(name) == getitem(header, name)[1].value

\* C14: every header produced by create_header has version 2 or 3; version
\* 2 comes with header_length 72 and both feature bitmasks 0, version 3 with
\* header_length 104, incompatible_features < 4 and compatible_features < 2;
\* autoclear_features is 0 and refcount_order is 4 always; and without a
\* backing file name backing_file_offset and backing_file_size are 0
C14_HeaderContract ==
    header # <<>> =>
        /\ HeaderValue("version") \in {2, 3}
        /\ HeaderValue("version") = 2 =>
               /\ HeaderValue("header_length") = 72
               /\ HeaderValue("incompatible_features") = 0
               /\ HeaderValue("compatible_features") = 0
        /\ HeaderValue("version") = 3 =>
               /\ HeaderValue("header_length") = 104
               /\ HeaderValue("incompatible_features") \in 0 .. 3
               /\ HeaderValue("compatible_features") \in 0 .. 1
        /\ HeaderValue("autoclear_features") = 0
        /\ HeaderValue("refcount_order") = 4
        /\ bf_name_arg = NoneVal =>
               /\ HeaderValue("backing_file_offset") = 0
               /\ HeaderValue("backing_file_size") = 0

C14_Witness ==
    /\ pc = "set_backing_file_name"
    /\ cluster_bits = 12
    /\ image_size = 20480
    /\ bf_name_arg = NoneVal
    /\ HeaderValue("version") = 2
    /\ HeaderValue("header_length") = 72

\* a configured name fits in cluster 0 when the full header, the name and
\* the end marker of the extension area find room in it
NameFits == bf_name_arg # NoneVal /\ 104 + 8 + bf_name_arg <= cluster_size

\* C16: a configured name that fits in cluster 0 gives backing_file_size =
\* len(name) and backing_file_offset = cluster_size - len(name), otherwise
\* both are 0; the bf_name field exists iff a name is configured and
\* backing_file_offset is non-zero, and then lies at backing_file_offset
C16_BackingFileName ==
    /\ header # <<>> =>
           IF NameFits
           THEN /\ HeaderValue("backing_file_size") = bf_name_arg
                /\ HeaderValue("backing_file_offset") =
                       cluster_size - bf_name_arg
           ELSE /\ HeaderValue("backing_file_size") = 0
                /\ HeaderValue("backing_file_offset") = 0
    /\ pc \notin {"_size_params", "create_header",
                  "set_backing_file_name"} =>
           /\ backing_file_name # <<>> <=>
                  (bf_name_arg # NoneVal /\
                   HeaderValue("backing_file_offset") # 0)
           /\ backing_file_name # <<>> =>
                  /\ Len(backing_file_name) = 1
                  /\ backing_file_name[1].name = "bf_name"
                  /\ backing_file_name[1].offset =
                         HeaderValue("backing_file_offset")
                  /\ backing_file_name[1].offset +
                         calcsize(backing_file_name[1].fmt) = cluster_size

C16_Witness ==
    /\ pc = "set_backing_file_format"
    /\ cluster_bits = 12
    /\ bf_name_arg = 4096 - 112
    /\ backing_file_name # <<>>
    /\ backing_file_name[1].offset = 112

\* the space left in cluster 0 between the offset at which the next
\* extension would start and the high border
Room(offset) == high_border(header, cluster_size) - offset

\* the stage set_backing_file_format finds too little room for its record
NoRoomForFormat ==
    /\ pc = "set_backing_file_format"
    /\ bf_fmt_arg # NoneVal
    /\ Room(104) < 2 * UINT32_S + RoundUp8(bf_fmt_arg)

\* the stage create_feature_name_table finds too little room for the
\* extension header and one 48-byte entry
NoRoomForFeatures ==
    /\ pc = "create_feature_name_table"
    /\ Room(ext_offset) < 2 * UINT32_S + 48

\* C15: a stage that finds too little room in cluster 0 for its optional
\* extension yields an empty field list and returns the incoming offset
\* unchanged, and the build goes on to the next stage
C15_NoRoomYieldsEmpty ==
    [][/\ NoRoomForFormat =>
              /\ backing_file_format' = <<>>
              /\ ext_offset' = 104
              /\ pc' = "create_feature_name_table"
       /\ NoRoomForFeatures =>
              /\ feature_name_table' = <<>>
              /\ ext_offset' = ext_offset
              /\ pc' = "set_end_of_extension_area"]_vars

\* the part of C15 about the backing file format record alone
C15_FormatPart ==
    [][NoRoomForFormat =>
           /\ backing_file_format' = <<>>
           /\ ext_offset' = 104
           /\ pc' = "create_feature_name_table"]_vars

\* a feature name table left without room: room of 0 .. 7 bytes
C15_NoRoomReached ==
    /\ pc = "set_end_of_extension_area"
    /\ cluster_size = 512
    /\ bf_name_arg = 400
    /\ bf_fmt_arg = NoneVal
    /\ feature_name_table # <<>>
    /\ ext_offset = 112

\* the clusters holding L2 tables, the number of L2 tables that map the
\* whole image, and the lower limit of active entries in a table
L2Tables == {l2_tables[j].offset \div cluster_size : j \in DOMAIN l2_tables}
MaxL2TablesNeeded == CeilDiv(8 * image_size, cluster_size * cluster_size)
EntriesPerCluster == cluster_size \div 8
LowLim == CeilDiv(Cardinality(data_clusters), MaxL2TablesNeeded)

\* the entries of the L2 table in cluster c, as indices into l2_tables
EntriesOf(c) ==
    {j \in DOMAIN l2_tables : l2_tables[j].offset \div cluster_size = c}

\* the index an L2 entry occupies in its table
IndexOf(j) == (l2_tables[j].offset % cluster_size) \div 8

HasTables == pc \in {"create_l1_table", "built"} /\ data_clusters # {}

\* C19: every L2 table holds a number of active entries within
\* [low_lim, entries_per_cluster], and the entries of one table occupy
\* pairwise distinct indices in [0, entries_per_cluster)
C19_TableSizes ==
    HasTables =>
        \A c \in L2Tables :
            /\ Cardinality(EntriesOf(c)) >= LowLim
            /\ Cardinality(EntriesOf(c)) <= EntriesPerCluster
            /\ \A j, k \in EntriesOf(c) :
                   /\ IndexOf(j) \in 0 .. (EntriesPerCluster - 1)
                   /\ j # k => IndexOf(j) # IndexOf(k)

\* the part of C19 that leaves out the lower limit
C19_IndicesPart ==
    HasTables =>
        \A c \in L2Tables :
            /\ Cardinality(EntriesOf(c)) >= 1
            /\ Cardinality(EntriesOf(c)) <= EntriesPerCluster
            /\ \A j, k \in EntriesOf(c) :
                   /\ IndexOf(j) \in 0 .. (EntriesPerCluster - 1)
                   /\ j # k => IndexOf(j) # IndexOf(k)

\* a table below the lower limit: three data clusters bound to tables of
\* two entries and of one
C19_ShortTableReached ==
    /\ HasTables
    /\ LowLim = 2
    /\ \E c \in L2Tables : Cardinality(EntriesOf(c)) = 1

\* C20: when data exists there is at least one L2 table and at most
\* max_l2_tables_needed of them, so that drawing one distinct L1 slot per
\* table from range(max_l2_tables_needed) succeeds and create_l1_table goes
\* through
C20_TableCount ==
    HasTables =>
        /\ Cardinality(L2Tables) >= 1
        /\ Cardinality(L2Tables) <= MaxL2TablesNeeded
        /\ pc = "create_l1_table" =>
               /\ random_sample_range(0, MaxL2TablesNeeded,
                                      Cardinality(L2Tables)) # {}
               /\ ENABLED CreateL1Table

C20_Witness ==
    /\ pc = "built"
    /\ Cardinality(data_clusters) = 3
    /\ MaxL2TablesNeeded = 2
    /\ Cardinality(L2Tables) = 2
    /\ Len(l1_table) = 2

\* all fields of the image, as Image.write goes through them
AllFields ==
    join(header, backing_file_format, feature_name_table,
         end_of_extension_area, backing_file_name, l1_table, l2_tables)

\* the largest end offset of a field
LargestEnd ==
    Max({AllFields[i].offset + calcsize(AllFields[i].fmt) :
             i \in DOMAIN AllFields})

\* C12: after Image.write, fuzzed image or not, the file length is a
\* positive multiple of the cluster size of the build: the largest field
\* end offset rounded up to the next multiple of it; no padding byte is
\* written when that end is already a multiple
C12_FileLength ==
    pc = "written" =>
        /\ image_file.size > 0
        /\ image_file.size % cluster_size = 0
        /\ image_file.size >= LargestEnd
        /\ image_file.size - LargestEnd < cluster_size
        /\ LargestEnd % cluster_size = 0 => ~ image_file.padded

\* a file written from an image whose header field cluster_bits was fuzzed
C12_Witness ==
    /\ pc = "written"
    /\ call = "create_image"
    /\ HeaderValue("cluster_bits") # cluster_bits
    /\ image_file.padded
    /\ image_file.size % cluster_size = 0

\* a file written without padding byte
C12_AlignedReached ==
    /\ pc = "written"
    /\ LargestEnd % cluster_size = 0
    /\ ~ image_file.padded

\* the fixed header as a parser reads it: name, offset and width
HeaderLayout ==
    << <<"magic", 0, 4>>, <<"version", 4, 4>>,
       <<"backing_file_offset", 8, 8>>, <<"backing_file_size", 16, 4>>,
       <<"cluster_bits", 20, 4>>, <<"size", 24, 8>>,
       <<"crypt_method", 32, 4>>, <<"l1_size", 36, 4>>,
       <<"l1_table_offset", 40, 8>>, <<"refcount_table_offset", 48, 8>>,
       <<"refcount_table_clusters", 56, 4>>, <<"nb_snapshots", 60, 4>>,
       <<"snapshots_offset", 64, 8>>, <<"incompatible_features", 72, 8>>,
       <<"compatible_features", 80, 8>>, <<"autoclear_features", 88, 8>>,
       <<"refcount_order", 96, 4>>, <<"header_length", 100, 4>> >>

\* the bytes of the file at [offset, offset + width)
FileBytes(offset, width) ==
    SubSeq(image_file.head, offset + 1, offset + width)

RECURSIVE Decode(_, _)
\* the big-endian unsigned integer held by the first n of the bytes
Decode(bytes, n) ==
    IF n = 0 THEN 0 ELSE Decode(bytes, n - 1) * 256 + bytes[n]

\* C13: in the file written from a non-fuzzed build, each fixed header
\* field decoded at its offset and big-endian width is the value of the
\* header Field of that name, and no field outside the header is written
\* into the bytes [0, 104)
C13_HeaderRoundTrip ==
    (pc = "written" /\ call = "Image") =>
        /\ \A i \in DOMAIN HeaderLayout :
               LET name == HeaderLayout[i][1]
                   offset == HeaderLayout[i][2]
                   width == HeaderLayout[i][3]
               IN /\ Len(getitem(header, name)) = 1
                  /\ IF name = "magic"
                     THEN FileBytes(offset, width) = <<81, 70, 73, 251>>
                     ELSE Decode(FileBytes(offset, width), width) =
                              HeaderValue(name)
        /\ \A i \in (Len(header) + 1) .. Len(AllFields) :
               \/ AllFields[i].offset >= 104
               \/ calcsize(AllFields[i].fmt) = 0

\* a version 3 header with a backing file name and an L1 table read back
C13_Witness ==
    /\ pc = "written"
    /\ call = "Image"
    /\ HeaderValue("version") = 3
    /\ HeaderValue("backing_file_offset") > 255
    /\ HeaderValue("l1_table_offset") > 255
    /\ Decode(FileBytes(40, 8), 8) = HeaderValue("l1_table_offset")
    /\ Decode(FileBytes(8, 8), 8) = HeaderValue("backing_file_offset")

(***************************************************************************)
(* Test runner: runner.py, TestEnv.__init__ and TestEnv.execute.  Two runs *)
(* of one test, one after the other.  The generator of module random is a  *)
(* state that every draw reads and advances; what create_image builds and  *)
(* writes is given by the values it draws.                                 *)
(***************************************************************************)
\* the number of states of the generator
GenStates == 8
\* the largest seed
MaxSeed == 2
\* the draws create_image makes for an image without backing file and
\* without fuzz configuration
ImageDraws == 3

\* the generator after one draw
next_state(state) == (5 * state + 3) % GenStates

\* random.randint(a, b) in the generator state 'state'
gen_randint(state, a, b) == a + (state % (b - a + 1))

\* mutant: the seed is not applied
random_seed_ignored(state, seed) == state

\* random.seed(self.seed): the generator state depends on the seed alone
random_seed(state, seed) == (3 * seed + 1) % GenStates

RECURSIVE gen_draws(_, _)
\* the values of n draws in a row, from the generator state 'state' on
gen_draws(state, n) ==
    IF n = 0 THEN <<>>
    ELSE <<gen_randint(state, 0, 255)>> \o gen_draws(next_state(state), n - 1)

RECURSIVE gen_after(_, _)
\* the generator state after n draws
gen_after(state, n) ==
    IF n = 0 THEN state ELSE gen_after(next_state(state), n - 1)

RECURSIVE packed(_, _)
\* the bytes written for the values from the i-th on
packed(values, i) ==
    IF i > Len(values) THEN <<>>
    ELSE pack(FmtI, values[i]) \o packed(values, i + 1)

\* the seeds given with --seed, and the fuzz configurations given with
\* --config: none, or one that makes create_image draw once more
SeedArgs == {NoneVal} \cup (1 .. MaxSeed)
ConfigArgs == {0, 1}

\* the first run starts: the generator is in the state the import of
\* module random, or an earlier test, left it in
InitTest ==
    /\ t_run = 1
    /\ t_pc = "TestEnv"
    /\ t_seed_arg \in SeedArgs
    /\ t_config \in ConfigArgs
    /\ t_gen \in 0 .. (GenStates - 1)
    /\ t_seed = NoneVal
    /\ t_backing = <<NoneVal, NoneVal>>
    /\ t_image = <<>>
    /\ t_file = <<>>
    /\ t_drawn = <<0, 0>>
    /\ t_first = NoRun
    /\ RunIdle
    /\ AllocIdle
    /\ ImgIdle
    /\ SelIdle

\* the count of draws of the test after n more draws: those made with the
\* generator seeded, and those made before
drawn_more(drawn, seeded, n) ==
    IF seeded THEN <<drawn[1] + n, drawn[2]>> ELSE <<drawn[1], drawn[2] + n>>

\* TestEnv.__init__: self.seed is the seed given, or
\* str(random.randint(0, sys.maxint)); then random.seed(self.seed)
TestEnvInit ==
    /\ t_pc = "TestEnv"
    /\ LET given == t_seed_arg # NoneVal
           seed == IF given THEN t_seed_arg
                   ELSE gen_randint(t_gen, 1, MaxSeed)
           gen == IF given THEN t_gen ELSE next_state(t_gen)
       IN /\ t_seed' = seed
          /\ t_gen' = random_seed(gen, seed)
    /\ t_pc' = "_create_backing_file"
    /\ UNCHANGED <<t_run, t_seed_arg, t_config, t_backing, t_image, t_file,
                   t_drawn, t_first>>
    /\ UNCHANGED <<allocvars, imgvars, selvars>>
    /\ UNCHANGED runvars

\* TestEnv._create_backing_file: random.choice of one of eight formats,
\* random.randint(1, 10) for the size, and qemu-img create, which succeeds
\* or not; a format is named by its index, a name by its format
CreateBackingFile ==
    /\ t_pc = "_create_backing_file"
    /\ \E retcode \in {0, 1} :
           LET backing_file_fmt == gen_randint(t_gen, 0, 7)
           IN t_backing' = IF retcode = 0
                           THEN <<backing_file_fmt, backing_file_fmt>>
                           ELSE <<NoneVal, NoneVal>>
    /\ t_gen' = gen_after(t_gen, 2)
    /\ t_drawn' = drawn_more(t_drawn, t_seed # NoneVal, 2)
    /\ t_pc' = "create_image"
    /\ UNCHANGED <<t_run, t_seed_arg, t_config, t_seed, t_image, t_file,
                   t_first>>
    /\ UNCHANGED <<allocvars, imgvars, selvars>>
    /\ UNCHANGED runvars

\* image_generator.create_image('test_image', backing_file_name,
\* backing_file_fmt, fuzz_config): build, fuzz and write; the draws made
\* depend on the arguments
CreateImage ==
    /\ t_pc = "create_image"
    /\ LET n == ImageDraws + (IF t_backing[1] # NoneVal THEN 1 ELSE 0)
                 + t_config
       IN /\ t_image' = gen_draws(t_gen, n)
          /\ t_file' = packed(gen_draws(t_gen, n), 1)
          /\ t_gen' = gen_after(t_gen, n)
          /\ t_drawn' = drawn_more(t_drawn, t_seed # NoneVal, n)
    /\ t_pc' = "commands"
    /\ UNCHANGED <<t_run, t_seed_arg, t_config, t_seed, t_backing, t_first>>
    /\ UNCHANGED <<allocvars, imgvars, selvars>>
    /\ UNCHANGED runvars

\* the loop over the commands of execute, for one command: start and end
\* are drawn
RunCommands ==
    /\ t_pc = "commands"
    /\ t_gen' = gen_after(t_gen, 2)
    /\ t_drawn' = drawn_more(t_drawn, t_seed # NoneVal, 2)
    /\ t_pc' = "done"
    /\ UNCHANGED <<t_run, t_seed_arg, t_config, t_seed, t_backing, t_image,
                   t_file, t_first>>
    /\ UNCHANGED <<allocvars, imgvars, selvars>>
    /\ UNCHANGED runvars

\* the test is run again, in a new process: any seed and configuration may
\* be given, and the generator starts in any state
SecondRun ==
    /\ t_run = 1
    /\ t_pc = "done"
    /\ t_first' = [seed |-> t_seed, backing |-> t_backing,
                   config |-> t_config, image |-> t_image, file |-> t_file]
    /\ t_run' = 2
    /\ t_pc' = "TestEnv"
    /\ t_seed_arg' \in SeedArgs
    /\ t_config' \in ConfigArgs
    /\ t_gen' \in 0 .. (GenStates - 1)
    /\ t_seed' = NoneVal
    /\ t_backing' = <<NoneVal, NoneVal>>
    /\ t_image' = <<>>
    /\ t_file' = <<>>
    /\ t_drawn' = <<0, 0>>
    /\ UNCHANGED <<allocvars, imgvars, selvars>>
    /\ UNCHANGED runvars

NextTest ==
    \/ TestEnvInit
    \/ CreateBackingFile
    \/ CreateImage
    \/ RunCommands
    \/ SecondRun

SpecTest == InitTest /\ [][NextTest]_vars

\* both runs have made their image, from the same seed, backing file
\* arguments and fuzz configuration
SameTest ==
    /\ t_run = 2
    /\ t_pc \in {"commands", "done"}
    /\ t_seed = t_first.seed
    /\ t_backing = t_first.backing
    /\ t_config = t_first.config

C21_L1TableAndHeader ==
    (pc = "built") =>
        /\ Len(l1_table) >= 1
        /\ HeaderValue("l1_size") = MaxL2TablesNeeded
        /\ HeaderValue("l1_table_offset") = l1_run[1] * cluster_size
        /\ HeaderValue("l1_table_offset") # 0
        /\ HeaderValue("l1_table_offset") % cluster_size = 0
        /\ \A i \in DOMAIN l1_table :
               /\ l1_table[i].name = "l1_entry"
               /\ l1_table[i].offset >= HeaderValue("l1_table_offset")
        /\ (data_clusters = {}) =>
               /\ Len(l1_table) = 1
               /\ l1_table[1].value = 0
               /\ l1_table[1].offset \in {c * cluster_size : c \in 1 .. 3}
               /\ l1_table[1].offset = HeaderValue("l1_table_offset")

\* C21 witness: an image of 4097 clusters built without data clusters, its
\* placeholder entry at the start of cluster 3 and l1_size 65
C21_Witness ==
    /\ pc = "built"
    /\ data_clusters = {}
    /\ Len(l1_table) = 1
    /\ l1_table[1].offset = 3 * cluster_size
    /\ HeaderValue("l1_table_offset") = 3 * cluster_size
    /\ HeaderValue("l1_size") = 65

\* the build of an empty image: the header declares an L1 table of no
\* entry, the placeholder entry is there all the same
C21_EmptyImageReached ==
    /\ pc = "built"
    /\ image_size = 0
    /\ HeaderValue("l1_size") = 0
    /\ Len(l1_table) = 1

\* the build with data clusters: two L1 entries, the header's offset at the
\* first cluster of the run
C21_DataReached ==
    /\ pc = "built"
    /\ Len(l1_table) = 2
    /\ HeaderValue("l1_size") = 2
    /\ HeaderValue("l1_table_offset") = l1_run[1] * cluster_size

\* the stages of the build up to set_end_of_extension_area have run
ExtensionsDone ==
    pc \in {"_alloc_data", "create_l2_tables", "create_l1_table", "built"}

\* the length of the fixed header of the image's version
FixedHeaderLength == IF HeaderValue("version") = 2 THEN 72 ELSE 104

\* a header extension record read off the fields of its sub-structure:
\* where it starts, its magic and ext_length, and the bytes it occupies,
\* 8 plus the data length rounded up to a multiple of 8
ExtRecord(fl) ==
    [start |-> fl[1].offset,
     magic |-> fl[1].value,
     length |-> fl[2].value,
     size |-> 8 + ((fl[2].value + 7) \div 8) * 8,
     aligned |-> /\ fl[1].name = "ext_magic"
                 /\ fl[2].name = "ext_length"
                 /\ fl[2].offset = fl[1].offset + 4
                 /\ \A i \in 3 .. Len(fl) : fl[i].offset >= fl[1].offset + 8]

\* the records of the image in file order, the end marker last
ExtChain ==
    (IF backing_file_format = <<>> THEN <<>>
     ELSE << ExtRecord(backing_file_format) >>) \o
    (IF feature_name_table = <<>> THEN <<>>
     ELSE << ExtRecord(feature_name_table) >>) \o
    << ExtRecord(end_of_extension_area) >>

\* the records are chained from 'first' on: each starts where the one
\* before it ends, at a multiple of 8, a backing file format record has
\* ext_length = len(backing_file_fmt), and the end marker (magic 0,
\* length 0) comes last
ChainedFrom(first) ==
    /\ ExtChain[1].start = first
    /\ \A i \in 2 .. Len(ExtChain) :
           ExtChain[i].start = ExtChain[i - 1].start + ExtChain[i - 1].size
    /\ \A i \in DOMAIN ExtChain :
           /\ ExtChain[i].start % 8 = 0
           /\ ExtChain[i].aligned
    /\ (backing_file_format # <<>>) =>
           /\ ExtChain[1].length = bf_fmt_arg
           /\ ExtChain[1].size = 8 + ((bf_fmt_arg + 7) \div 8) * 8
           /\ calcsize(backing_file_format[3].fmt) = bf_fmt_arg
           /\ backing_file_format[3].offset = ExtChain[1].start + 8
    /\ ExtChain[Len(ExtChain)].magic = 0
    /\ ExtChain[Len(ExtChain)].length = 0

\* C22: the header extension records are chained contiguously from the byte
\* right after the fixed header, whose length is 72 for version 2 and 104
\* for version 3: a backing file format record occupies 8 + (string length
\* rounded up to a multiple of 8) bytes with ext_length = string length,
\* each following record starts where the previous one ends, every record
\* offset is a multiple of 8, and the end marker follows the last record
C22_ExtensionsChained ==
    ExtensionsDone => ChainedFrom(FixedHeaderLength)

\* the part of C22 that leaves out where the chain starts in a version 2
\* image: the records are chained from byte 104 on in both versions
C22_ChainedFrom104 ==
    ExtensionsDone => ChainedFrom(104)

\* a version 2 image with its three records chained from byte 104 on: a
\* backing file format record for "qcow2", a feature name table and the
\* end marker
C22_Version2Reached ==
    /\ pc = "built"
    /\ HeaderValue("version") = 2
    /\ HeaderValue("header_length") = 72
    /\ bf_fmt_arg = 5
    /\ Len(ExtChain) = 3
    /\ ExtChain[1].start = 104
    /\ ExtChain[2].start = 120
    /\ ExtChain[3].start = ExtChain[2].start + 8 + ExtChain[2].length

(***************************************************************************)
(* The candidates of selector: "[iter_validate(c) for c in constraints]"   *)
(* taken one constraint at a time, for the functions whose table lists the *)
(* correct values first and the incorrect ones second.                     *)
(***************************************************************************)
\* the functions with a table of correct and incorrect values
TwoSidedNames == {"version", "cluster_bits", "crypt_method"}

\* the table 'constraints' of the function called
constraints_called ==
    IF fz_module = "qcow2" THEN constraints_of(fz_name)
    ELSE template_constraints_of(fz_name)

InitCandidates ==
    /\ fz_module \in {"qcow2", "template"}
    /\ fz_name \in TwoSidedNames
    /\ fz_current \in CurrentsDrawn
    /\ fz_result = 0
    /\ fz_pc = "call"
    /\ fz_intervals = <<>>
    /\ fz_draw = 0
    /\ AllocIdle
    /\ ImgIdle
    /\ TestIdle

\* iter_validate(constraints[0]): the candidate of the first constraint
ValidCandidate ==
    /\ fz_pc = "call"
    /\ fz_result' \in iter_validate(fz_current, constraints_called[1], FALSE)
    /\ fz_pc' = "valid_candidate"
    /\ UNCHANGED <<fz_module, fz_name, fz_current, fz_intervals, fz_draw>>
    /\ UNCHANGED <<allocvars, imgvars>>
    /\ UNCHANGED testvars

\* iter_validate(constraints[1]): the candidate of the second constraint
InvalidCandidate ==
    /\ fz_pc = "call"
    /\ fz_result' \in iter_validate(fz_current, constraints_called[2], FALSE)
    /\ fz_pc' = "invalid_candidate"
    /\ UNCHANGED <<fz_module, fz_name, fz_current, fz_intervals, fz_draw>>
    /\ UNCHANGED <<allocvars, imgvars>>
    /\ UNCHANGED testvars

NextCandidates ==
    \/ ValidCandidate
    \/ InvalidCandidate

SpecCandidates == InitCandidates /\ [][NextCandidates]_vars

\* C23: the constraint tables separate valid from invalid values: the
\* candidate drawn from the 'invalid' constraint of cluster_bits lies in
\* {0..8} or {21..UINT32} and never in 9..20, and the one of version lies
\* in {0, 1} or {4..UINT32} and never in {2, 3}
C23_InvalidCandidates ==
    (fz_pc = "invalid_candidate") =>
        /\ (fz_name = "cluster_bits") =>
               /\ fz_result \in (0 .. 8) \cup (21 .. UINT32)
               /\ fz_result \notin 9 .. 20
        /\ (fz_name = "version") =>
               /\ fz_result \in (0 .. 1) \cup (4 .. UINT32)
               /\ fz_result \notin 2 .. 3

\* the part of C23 about version
C23_VersionPart ==
    (fz_pc = "invalid_candidate" /\ fz_name = "version") =>
        /\ fz_result \in (0 .. 1) \cup (4 .. UINT32)
        /\ fz_result \notin 2 .. 3

\* the candidates of the first constraint are correct values, also those
\* of cluster_bits
C23_ValidPart ==
    (fz_pc = "valid_candidate") =>
        /\ (fz_name = "cluster_bits") => fz_result \in 9 .. 20
        /\ (fz_name = "version") => fz_result \in 2 .. 3

\* cluster_bits(12) with the correct value 20 as the candidate of its
\* 'invalid' constraint
C23_ValidDrawnAsInvalid ==
    /\ fz_pc = "invalid_candidate"
    /\ fz_module = "qcow2"
    /\ fz_name = "cluster_bits"
    /\ fz_current = 12
    /\ fz_result = 20

(***************************************************************************)
(* One call of random_from_intervals on a list of intervals of its own     *)
(***************************************************************************)
\* the limits of the intervals given lie in -1 .. MaxPoint, and a list has
\* at most MaxIntervals intervals
MaxPoint == 6
MaxIntervals == 3

\* the closed intervals with limits in -1 .. MaxPoint
IntervalsOver == {<<a, b>> \in (-1 .. MaxPoint) \X (-1 .. MaxPoint) : a <= b}

RECURSIVE AscendingFrom(_, _)
\* the lists of at most n intervals in ascending order, none overlapping
\* the next, whose limits are lo or more
AscendingFrom(lo, n) ==
    IF n = 0 THEN {<<>>}
    ELSE {<<>>} \cup
         UNION {{<<iv>> \o rest : rest \in AscendingFrom(iv[2] + 1, n - 1)} :
                    iv \in {x \in IntervalsOver : x[1] >= lo}}

\* the argument 'intervals', as given: the non-empty lists of intervals in
\* ascending order, none overlapping the next
IntervalsDrawn == AscendingFrom(-1, MaxIntervals) \ {<<>>}

InitIntervals ==
    /\ fz_module \in {"qcow2", "template"}
    /\ fz_name = "random_from_intervals"
    /\ fz_current = 0
    /\ fz_result = 0
    /\ fz_pc = "call"
    /\ fz_intervals \in IntervalsDrawn
    /\ fz_draw = 0
    /\ AllocIdle
    /\ ImgIdle
    /\ TestIdle

\* random_from_intervals(intervals), the same code in both modules
RandomFromIntervals ==
    /\ fz_pc = "call"
    /\ \E d \in randint(0, total_length(fz_intervals, 1) - 1) :
           /\ fz_draw' = d
           /\ fz_result' = shift_over_gaps(d + fz_intervals[1][1],
                                           fz_intervals, 1)
    /\ fz_pc' = "returned"
    /\ UNCHANGED <<fz_module, fz_name, fz_current, fz_intervals>>
    /\ UNCHANGED <<allocvars, imgvars>>
    /\ UNCHANGED testvars

NextIntervals == RandomFromIntervals

SpecIntervals == InitIntervals /\ [][NextIntervals]_vars

\* the union of the intervals given
UnionOf(list) == UNION {list[i][1] .. list[i][2] : i \in DOMAIN list}

\* the value returned for the draw d
ReturnedFor(d) == shift_over_gaps(d + fz_intervals[1][1], fz_intervals, 1)

\* C24: for a non-empty list of closed intervals in ascending order, none
\* overlapping another, the values random_from_intervals can return are
\* exactly the union of the intervals: the result lies in some interval,
\* and every member of the union is returned for exactly one value of the
\* draw over the total length
C24_ExactlyTheUnion ==
    (fz_pc = "returned" /\ fz_name = "random_from_intervals") =>
        LET union == UnionOf(fz_intervals)
            draws == 0 .. (Cardinality(union) - 1)
        IN /\ fz_result \in union
           /\ fz_draw \in draws
           /\ fz_result = ReturnedFor(fz_draw)
           /\ random_from_intervals(fz_intervals) = union
           /\ \A v \in union :
                  Cardinality({d \in draws : ReturnedFor(d) = v}) = 1

\* C24 witness: three intervals with gaps of different widths, the first
\* not starting at 0, and a draw that is shifted over both gaps
C24_Witness ==
    /\ fz_pc = "returned"
    /\ fz_intervals = << <<1, 2>>, <<4, 4>>, <<6, 6>> >>
    /\ fz_draw = 3
    /\ fz_result = 6

(***************************************************************************)
(* runner.py: run_test, which sets a test up, executes it and finishes it. *)
(* A command run is named by its return code.                              *)
(***************************************************************************)
\* at most MaxCommands commands are given to execute
MaxCommands == 3

\* the return codes of subprocess.call, as drawn: killed by SIGSEGV, by
\* SIGABRT, exit codes 0, 1 and 255
RetCodes == {0 - 11, 0 - 6, 0, 1, 255}

\* mutant: every return code but 0 marks the test failed
marks_failed_nonzero(retcode) == retcode # 0

\* "if retcode < 0: ... self.failed = True"
marks_failed(retcode) == retcode < 0

\* mutant: the directory of every test is removed when cleanup is enabled
removes_directory_always(cleanup, failed) == cleanup

\* "if self.cleanup and not self.failed: rmtree(self.current_dir)"
removes_directory(cleanup, failed) == cleanup /\ ~ failed

\* mutant: finish is called only when execute returns
after_execute_no_finally(raised) ==
    IF raised = "none" THEN "finish" ELSE "exit"

\* "try: ... test.execute(command, fuzz_config) ... finally: test.finish()":
\* the step that follows execute, however it ends
after_execute(raised) == "finish"

InitRun ==
    /\ r_pc = "TestEnv"
    /\ r_cleanup \in BOOLEAN
    /\ r_left \in 0 .. MaxCommands
    /\ r_retcodes = <<>>
    /\ r_failed = FALSE
    /\ r_raised = "none"
    /\ r_dir = "absent"
    /\ r_calls = <<>>
    /\ t_run = 0
    /\ t_pc = "idle"
    /\ t_seed_arg = NoneVal
    /\ t_config = NoneVal
    /\ t_gen = 0
    /\ t_seed = NoneVal
    /\ t_backing = <<NoneVal, NoneVal>>
    /\ t_image = <<>>
    /\ t_file = <<>>
    /\ t_drawn = <<0, 0>>
    /\ t_first = NoRun
    /\ AllocIdle
    /\ ImgIdle
    /\ SelIdle

\* what the steps of run_test leave alone
RunFrame ==
    /\ UNCHANGED <<t_run, t_pc, t_seed_arg, t_config, t_gen, t_seed,
                   t_backing, t_image, t_file, t_drawn, t_first>>
    /\ UNCHANGED <<allocvars, imgvars, selvars>>

\* TestEnv(...): os.makedirs makes the test directory or raises OSError,
\* which becomes TestException and ends run_test with sys.exit(1)
RunTestEnv ==
    /\ r_pc = "TestEnv"
    /\ \E made \in BOOLEAN :
           IF made
           THEN /\ r_dir' = "present"
                /\ r_pc' = "create_image"
           ELSE /\ r_dir' = "absent"
                /\ r_pc' = "exit"
    /\ r_failed' = FALSE
    /\ r_calls' = Append(r_calls, "__init__")
    /\ UNCHANGED <<r_cleanup, r_left, r_retcodes, r_raised>>
    /\ RunFrame

\* execute up to the loop over the commands: the images are created, or
\* the image generator raises an exception of its own
ExecuteCreateImage ==
    /\ r_pc = "create_image"
    /\ \E created \in BOOLEAN :
           IF created
           THEN /\ r_raised' = "none"
                /\ r_pc' = "commands"
           ELSE /\ r_raised' = "Exception"
                /\ r_pc' = after_execute("Exception")
    /\ r_calls' = Append(r_calls, "execute")
    /\ UNCHANGED <<r_cleanup, r_left, r_retcodes, r_failed, r_dir>>
    /\ RunFrame

\* one turn of the loop over the commands: the application cannot be
\* started (OSError, raised as TestException), or it runs and ends with a
\* return code, negative when a signal killed it
ExecuteCommand ==
    /\ r_pc = "commands"
    /\ r_left > 0
    /\ \E started \in BOOLEAN :
           IF started
           THEN \E retcode \in RetCodes :
                    /\ r_retcodes' = Append(r_retcodes, retcode)
                    /\ r_failed' = IF marks_failed(retcode) THEN TRUE
                                   ELSE r_failed
                    /\ r_left' = r_left - 1
                    /\ r_raised' = "none"
                    /\ r_pc' = "commands"
           ELSE /\ r_raised' = "TestException"
                /\ r_pc' = after_execute("TestException")
                /\ UNCHANGED <<r_retcodes, r_failed, r_left>>
    /\ UNCHANGED <<r_cleanup, r_dir, r_calls>>
    /\ RunFrame

\* execute returns after the last command
ExecuteReturn ==
    /\ r_pc = "commands"
    /\ r_left = 0
    /\ r_pc' = after_execute("none")
    /\ UNCHANGED <<r_cleanup, r_left, r_retcodes, r_failed, r_raised, r_dir,
                   r_calls>>
    /\ RunFrame

\* finish: the directory of a passed test is removed if cleanup is set;
\* then run_test returns, or exits if execute raised
Finish ==
    /\ r_pc = "finish"
    /\ r_dir' = IF removes_directory(r_cleanup, r_failed) THEN "removed"
                ELSE r_dir
    /\ r_calls' = Append(r_calls, "finish")
    /\ r_pc' = IF r_raised = "none" THEN "returned" ELSE "exit"
    /\ UNCHANGED <<r_cleanup, r_left, r_retcodes, r_failed, r_raised>>
    /\ RunFrame

NextRun ==
    \/ RunTestEnv
    \/ ExecuteCreateImage
    \/ ExecuteCommand
    \/ ExecuteReturn
    \/ Finish

SpecRun == InitRun /\ [][NextRun]_vars

\* a command run so far ended with a negative return code
KilledBySignal == \E i \in DOMAIN r_retcodes : r_retcodes[i] < 0

\* run_test is over
RunOver == r_pc \in {"returned", "exit"}

\* C25: after execute returns, failed is true iff a command run ended with
\* a negative return code, and a code >= 0 never marks the test failed;
\* finish is run after execute however execute ends, also when it raises
\* TestException, and never before; finish removes the test directory iff
\* cleanup is enabled and the test did not fail, so the directory of a
\* failed test is kept
C25_FailedAndFinish ==
    /\ (r_pc # "idle") => (r_failed <=> KilledBySignal)
    /\ (r_pc = "finish" /\ r_raised = "none") =>
           /\ r_left = 0
           /\ r_failed <=> KilledBySignal
    /\ (r_pc = "exit" /\ r_raised = "none") => r_calls = <<"__init__">>
    /\ (RunOver /\ r_calls # <<"__init__">>) =>
           /\ r_calls = <<"__init__", "execute", "finish">>
           /\ (r_dir = "removed") <=> (r_cleanup /\ ~ r_failed)
           /\ r_failed => r_dir = "present"
           /\ r_dir # "absent"
    /\ (r_pc \in {"create_image", "commands", "finish"}) =>
           /\ r_dir = "present"
           /\ "finish" \notin {r_calls[i] : i \in DOMAIN r_calls}

\* C25 witness: with cleanup enabled, a command exits with code 1, the
\* next is killed by a signal and the third cannot be started; finish has
\* run and the directory is kept
C25_Witness ==
    /\ r_pc = "exit"
    /\ r_cleanup
    /\ r_retcodes = <<1, 0 - 11>>
    /\ r_raised = "TestException"
    /\ r_failed
    /\ r_calls = <<"__init__", "execute", "finish">>
    /\ r_dir = "present"

\* a passed test whose commands all exited with a code >= 0: its
\* directory is removed
C25_PassedReached ==
    /\ r_pc = "returned"
    /\ r_cleanup
    /\ r_retcodes = <<255, 1>>
    /\ ~ r_failed
    /\ r_dir = "removed"

(***************************************************************************)
(* The L1 table the header declares against the clusters reserved for it   *)
(***************************************************************************)
\* the clusters holding a byte of the table the header declares:
\* [l1_table_offset, l1_table_offset + 8 * l1_size)
DeclaredL1Clusters ==
    IF HeaderValue("l1_size") = 0 THEN {}
    ELSE ClusterAt(HeaderValue("l1_table_offset")) ..
         ClusterAt(HeaderValue("l1_table_offset")
                   + 8 * HeaderValue("l1_size") - 1)

\* C26: the cluster run allocated for the L1 table is large enough for the
\* table the header declares: the bytes [l1_table_offset,
\* l1_table_offset + 8 * l1_size) lie inside the clusters reserved for the
\* L1 table, and so overlap no data cluster, no L2 table cluster and not
\* cluster 0, whichever L1 slots are active
C26_DeclaredTableFits ==
    (pc = "built") =>
        /\ DeclaredL1Clusters \subseteq L1RunClusters
        /\ DeclaredL1Clusters \cap data_clusters = {}
        /\ DeclaredL1Clusters \cap L2TableClusters = {}
        /\ 0 \notin DeclaredL1Clusters

\* the part of C26 about the entries written: every L1 entry lies inside
\* the run reserved, which holds no data cluster, no L2 table and not
\* cluster 0, and the declared table starts with the run
C26_EntriesPart ==
    (pc = "built") =>
        /\ \A i \in DOMAIN l1_table :
               /\ ClusterAt(l1_table[i].offset) \in L1RunClusters
               /\ ClusterAt(l1_table[i].offset + 7) \in L1RunClusters
        /\ L1RunClusters \cap (data_clusters \cup L2TableClusters \cup {0})
               = {}
        /\ HeaderValue("l1_table_offset") = l1_run[1] * cluster_size

\* a declared table that runs over a data cluster: 65 entries declared,
\* one cluster reserved at cluster 3, and the 65th entry in data cluster 4
C26_OverlapsDataReached ==
    /\ pc = "built"
    /\ cluster_size = 512
    /\ data_clusters = {2, 4, 5}
    /\ HeaderValue("l1_size") = 65
    /\ l1_run = <<3, 1>>
    /\ DeclaredL1Clusters = {3, 4}

\* the declared table fits when its last slot is the active one: two
\* clusters are reserved for 65 entries
C26_FitsReached ==
    /\ pc = "built"
    /\ HeaderValue("l1_size") = 65
    /\ l1_run[2] = 2
    /\ DeclaredL1Clusters = L1RunClusters

====
